---- MODULE Spec2Model ----
(***************************************************************************)
(* A state-machine model of the cvc5 SyGuS solver front end                *)
(* (src/smt/sygus_solver.cpp): the context-dependent lists of declared     *)
(* variables, functions-to-synthesize, constraints and assumptions, the    *)
(* stale flag and cached conjecture, the (incremental) sub-solver and its  *)
(* context-dependent cached pointer, the construction of the synthesis     *)
(* conjecture with triviality inference, and the interpretation and        *)
(* verification of the result of checkSynth.                               *)
(***************************************************************************)
EXTENDS Integers, Sequences, FiniteSets, TLC

(***************************************************************************)
(* Bounds of the model.                                                    *)
(***************************************************************************)
\* maximal total number of tracked constraints plus assumptions, in the
\* specification of the conjecture construction
MaxTerms == 3
\* the same, in the specifications of the context machine and of the results
MaxCtxTerms == 1
\* maximal number of open user-context levels (push without matching pop)
MaxDepth == 1
\* number of distinct heap addresses a SolverEngine allocation may return
NumAddrs == 2
\* maximal number of fresh variables (each with a primed copy) made by
\* assertSygusInvConstraint
MaxFresh == 2

(***************************************************************************)
(* Terms.  A Node is an interned expression: a kind, a name (leaves only)  *)
(* and ordered children.  Equality of Nodes is structural equality, which  *)
(* is identity after interning.                                            *)
(***************************************************************************)
Leaf(k, n) == [kind |-> k, name |-> n, args |-> <<>>]

mkNode(k, children) == [kind |-> k, name |-> "", args |-> children]

NullNode == Leaf("NULL", "")

TrueNode == Leaf("CONST_BOOLEAN", "true")

FalseNode == Leaf("CONST_BOOLEAN", "false")

\* Node::notNode
notNode(n) == mkNode("NOT", <<n>>)

\* NodeManager::mkAnd: the empty conjunction is true, a singleton is itself
mkAnd(children) ==
  IF Len(children) = 0 THEN TrueNode
  ELSE IF Len(children) = 1 THEN children[1]
  ELSE mkNode("AND", children)

\* Node::isVar
isVar(n) == n.kind \in {"BOUND_VARIABLE", "VARIABLE", "SKOLEM"}

RECURSIVE getVariables(_)
\* expr::getVariables: every variable leaf occurring in n
getVariables(n) ==
  IF isVar(n) THEN {n}
  ELSE UNION {getVariables(n.args[i]) : i \in 1..Len(n.args)}

Range(s) == {s[i] : i \in 1..Len(s)}

RECURSIVE freeVars(_)
\* the variables of n that are not bound by an enclosing binder
freeVars(n) ==
  IF n.kind = "BOUND_VARIABLE" THEN {n}
  ELSE IF n.kind \in {"FORALL", "EXISTS", "LAMBDA"}
  THEN freeVars(n.args[2]) \ Range(n.args[1].args)
  ELSE UNION {freeVars(n.args[i]) : i \in 1..Len(n.args)}

(***************************************************************************)
(* The symbols the inputs are drawn from.                                  *)
(***************************************************************************)
\* functions-to-synthesize (bound variables of function type)
FunF == Leaf("BOUND_VARIABLE", "f")

FunG == Leaf("BOUND_VARIABLE", "g")

\* the universe of functions-to-synthesize of the inputs
SynthFuns == {FunF, FunG}

\* declared sygus variables
VarX == Leaf("BOUND_VARIABLE", "x")

VarY == Leaf("BOUND_VARIABLE", "y")

\* a function defined by define-fun in the outer assertions: h := f(0)
DefH == Leaf("VARIABLE", "h")

Zero == Leaf("CONST_INTEGER", "0")

\* predicates of an invariant-synthesis problem
\* an invariant-to-synthesize over two integers
FunInv == Leaf("BOUND_VARIABLE", "inv")

PreP == Leaf("VARIABLE", "pre")

TransP == Leaf("VARIABLE", "trans")

PostP == Leaf("VARIABLE", "post")

App(op, as) == mkNode("APPLY_UF", <<op>> \o as)

Eq(a, b) == mkNode("EQUAL", <<a, b>>)

\* the body of the define-fun h
DefHBody == App(FunF, <<Zero>>)

\* g(x) = x
cG == Eq(App(FunG, <<VarX>>), VarX)

\* forall y. g(y) = y
cAll == mkNode("FORALL", <<mkNode("BOUND_VAR_LIST", <<VarY>>), Eq(App(FunG, <<VarY>>), VarY)>>)

\* h = x, where define-fun h expands to a term over f
cH == Eq(DefH, VarX)

\* f(x) = f(x), which the rewriter normalises to true
cTaut == Eq(App(FunF, <<VarX>>), App(FunF, <<VarX>>))

\* forall y. (g(y) = y and h = x): a quantified constraint whose body is a
\* conjunction
cAllAnd ==
  mkNode("FORALL", <<mkNode("BOUND_VAR_LIST", <<VarY>>),
                     mkNode("AND", <<Eq(App(FunG, <<VarY>>), VarY), cH>>)>>)

\* a nested conjunction with a quantified leaf
cNest == mkNode("AND", <<cAll, mkNode("AND", <<cH, cTaut>>)>>)

(***************************************************************************)
(* Collaborators of the solver, consumed through their interfaces.         *)
(***************************************************************************)
RECURSIVE applySubstitutions(_)
\* Preprocessor::applySubstitutions: expands the define-fun symbol h into
\* its definition f(0), which mentions a function-to-synthesize
applySubstitutions(n) ==
  IF n = DefH THEN DefHBody
  ELSE [n EXCEPT !.args = [i \in 1..Len(n.args) |-> applySubstitutions(n.args[i])]]

\* one rewrite step at the root of a node whose children are in normal form
rewriteTop(n) ==
  IF n.kind = "EQUAL" /\ n.args[1] = n.args[2] THEN TrueNode
  ELSE IF n.kind = "NOT" /\ n.args[1] = TrueNode THEN FalseNode
  ELSE IF n.kind = "NOT" /\ n.args[1] = FalseNode THEN TrueNode
  ELSE IF n.kind = "AND"
  THEN IF \E i \in 1..Len(n.args) : n.args[i] = FalseNode THEN FalseNode
       ELSE mkAnd(SelectSeq(n.args, LAMBDA c : c # TrueNode))
  ELSE IF n.kind = "IMPLIES" /\ n.args[2] = TrueNode THEN TrueNode
  ELSE IF n.kind = "IMPLIES" /\ n.args[1] = TrueNode THEN n.args[2]
  ELSE n

RECURSIVE rewrite(_)
\* Rewriter: a pure, idempotent normaliser, applied bottom-up
rewrite(n) ==
  rewriteTop([n EXCEPT !.args = [i \in 1..Len(n.args) |-> rewrite(n.args[i])]])

\* SygusUtils::getSygusType: the grammar attached to a function-to-synthesize
\* by declareSynthFun, given by the operators' free symbols; g's grammar
\* mentions f, f has no grammar (null type)
hasSygusType(f) == f = FunG

\* datatypes::utils::getFreeVariablesSygusType on the grammar of f
getFreeVariablesSygusType(f) == IF f = FunG THEN {FunF} ELSE {}

\* types: the argument types and the range type
IntType == [args |-> <<>>, range |-> "Int"]

BoolType == [args |-> <<>>, range |-> "Bool"]

FunType(as, r) == [args |-> as, range |-> r]

\* the formal argument list attached to a function-to-synthesize
\* (SygusUtils::getOrMkSygusArgumentList)
getSygusArgumentList(f) == mkNode("BOUND_VAR_LIST", <<Leaf("BOUND_VARIABLE", "a")>>)

RECURSIVE getType(_)
\* Node::getType
getType(n) ==
  IF n \in SynthFuns THEN FunType(<<"Int">>, "Int")
  ELSE IF n \in {FunInv, PreP, PostP} THEN FunType(<<"Int", "Int">>, "Bool")
  ELSE IF n = TransP THEN FunType(<<"Int", "Int", "Int", "Int">>, "Bool")
  ELSE IF n.kind = "LAMBDA"
  THEN FunType([i \in 1..Len(n.args[1].args) |-> getType(n.args[1].args[i]).range],
               getType(n.args[2]).range)
  ELSE IF n.kind \in {"CONST_BOOLEAN", "EQUAL", "AND", "NOT", "IMPLIES", "FORALL", "EXISTS"}
  THEN BoolType
  ELSE IntType

\* NodeManager::mkGroundTerm
mkGroundTerm(r) == IF r = "Bool" THEN FalseNode ELSE Zero

\* SygusUtils::mkSygusTermFor: a canonical term of the type of f
mkSygusTermFor(f) ==
  mkNode("LAMBDA", <<getSygusArgumentList(f), mkGroundTerm(getType(f).range)>>)

\* the attribute list marking a quantified formula as a synthesis conjecture
SygusAttr == mkNode("INST_PATTERN_LIST", <<Leaf("INST_ATTRIBUTE", "sygus")>>)

\* SygusUtils::mkSygusConjecture
mkSygusConjecture(fs, body) ==
  mkNode("FORALL", <<mkNode("BOUND_VAR_LIST", fs), body, SygusAttr>>)

(***************************************************************************)
(* Construction of the synthesis conjecture (checkSynth, stale branch).    *)
(***************************************************************************)
\* the negated body, existentially closed over the declared variables
\* variant: the implication is built whenever there are assumptions, also
\* when there are no constraints
ConjectureBody_alwaysImplies(cons, assumps, vars) ==
  LET body0 == mkAnd(cons)
      body1 == IF Len(assumps) # 0
               THEN mkNode("IMPLIES", <<mkAnd(assumps), body0>>)
               ELSE body0
      body2 == notNode(body1)
  IN IF Len(vars) # 0
     THEN mkNode("EXISTS", <<mkNode("BOUND_VAR_LIST", vars), body2>>)
     ELSE body2

ConjectureBody(cons, assumps, vars) ==
  LET body0 == mkAnd(cons)
      body1 == IF Len(cons) # 0 /\ Len(assumps) # 0
               THEN mkNode("IMPLIES", <<mkAnd(assumps), body0>>)
               ELSE body0
      body2 == notNode(body1)
  IN IF Len(vars) # 0
     THEN mkNode("EXISTS", <<mkNode("BOUND_VAR_LIST", vars), body2>>)
     ELSE body2

\* an inference that is skipped in incremental mode only
inferTrivial_ignoresStream(o) == ~o.incrementalSolving

\* whether functions that do not occur in the conjecture are omitted
inferTrivial(o) == ~(o.sygusStream \/ o.incrementalSolving)

\* the free symbols the classification of the first pass is based on
TrivialityVars(body) ==
  LET ppBody == IF body.kind = "EXISTS" THEN body.args[2] ELSE body
  IN getVariables(rewrite(applySubstitutions(ppBody)))

\* the symbols added from the grammars of the functions found non-trivial
GrammarVars(ntriv, vs) ==
  vs \cup UNION {getFreeVariablesSygusType(ntriv[i]) :
                   i \in {j \in 1..Len(ntriv) : hasSygusType(ntriv[j])}}

\* the loop of at most two classification passes: the non-trivial and the
\* trivial functions it ends with.  d_trivialFuns is cleared at the start of
\* each pass; ntrivSynthFuns is declared outside the loop and only grows.
TrivialityInference(body, funs) ==
  LET vs0 == TrivialityVars(body)
      ntriv0 == SelectSeq(funs, LAMBDA f : f \in vs0)
      triv0 == SelectSeq(funs, LAMBDA f : f \notin vs0)
      vs1 == GrammarVars(ntriv0, vs0)
  IN IF Len(triv0) # 0 /\ Cardinality(vs1) # Cardinality(vs0)
     THEN [ntriv |-> ntriv0 \o SelectSeq(funs, LAMBDA f : f \in vs1),
           triv |-> SelectSeq(funs, LAMBDA f : f \notin vs1),
           passes |-> 2]
     ELSE [ntriv |-> ntriv0, triv |-> triv0, passes |-> 1]

\* the functions the conjecture is built for and the new d_trivialFuns
SynthFunsToSolve(o, body, funs, oldTrivial) ==
  IF inferTrivial(o)
  THEN TrivialityInference(body, funs)
  ELSE [ntriv |-> funs, triv |-> oldTrivial, passes |-> 0]

\* the conjecture stored in d_conj
BuildConjecture(body, ntriv) ==
  IF Len(ntriv) # 0 THEN mkSygusConjecture(ntriv, body) ELSE body

(***************************************************************************)
(* The outer assertions handed to initializeSygusSubsolver.                *)
(***************************************************************************)
\* an auxiliary assertion (the quantified axiom of a define-fun-rec)
RecAxiom == Leaf("VARIABLE", "rec_axiom")

\* an outer assertion that is the synthesis conjecture for f with the
\* constraint g(x) = x
OuterConj == mkSygusConjecture(<<FunF>>, notNode(cG))

\* Assertions::getAssertionListDefinitions: define-fun h as (= h (f 0)),
\* and the axiom of a define-fun-rec, which is not an equality
AssertionListDefinitions == <<Eq(DefH, DefHBody), RecAxiom>>

\* Assertions::getAssertionList
AssertionList == <<Eq(DefH, DefHBody), RecAxiom, OuterConj>>

(***************************************************************************)
(* State.                                                                  *)
(***************************************************************************)
VARIABLES
  d_sygusVars,             \* CDList: declared sygus variables
  d_sygusConstraints,      \* CDList: constraints
  d_sygusAssumps,          \* CDList: assumptions
  d_sygusFunSymbols,       \* CDList: functions-to-synthesize
  d_sygusConjectureStale,  \* CDO<bool>
  d_subsolverCd,           \* CDO<SolverEngine*>: an address, 0 is nullptr
  d_subsolver,             \* unique_ptr<SolverEngine>: the live sub-solver
  d_conj,                  \* the cached conjecture
  d_trivialFuns,           \* the functions found trivial by the last rebuild
  ctx,                     \* the user context: one saved scope per push
  opts,                    \* the options and the build the solver runs with
  nextFresh,               \* NodeManager: number of fresh variables made
  ret                      \* the last operation: its inputs, what it
                           \* observed on entry and its outcome

sygusVars == <<d_sygusVars, d_sygusConstraints, d_sygusAssumps, d_sygusFunSymbols,
               d_sygusConjectureStale, d_subsolverCd, d_subsolver, d_conj,
               d_trivialFuns, ctx, opts, nextFresh, ret>>

\* no sub-solver: d_subsolver == nullptr
NoSubsolver == [addr |-> 0, defs |-> <<>>, asserted |-> <<>>]

\* the configurations: options::base.incrementalSolving,
\* quantifiers.sygusStream, smt.checkSynthSol, quantifiers.cegisSample = TRUST,
\* and whether the build compiles Assert in
OptionSets ==
  [incrementalSolving : BOOLEAN, sygusStream : BOOLEAN, checkSynthSol : BOOLEAN,
   cegisSampleTrust : BOOLEAN, assertions : BOOLEAN]

\* the outcome record of an operation other than checkSynth
NoRet(op, threw) ==
  [op |-> op, threw |-> threw, isNext |-> FALSE, rebuilt |-> FALSE,
   created |-> FALSE, queried |-> 0, raw |-> "NONE", solFound |-> FALSE,
   solMap |-> <<>>, vres |-> "NONE", sr |-> "NONE", fatal |-> "NONE",
   warnings |-> {}, checkerCreated |-> FALSE, passes |-> 0, ntriv |-> <<>>,
   prevOp |-> "NONE", staleOnEntry |-> FALSE, hadConj |-> FALSE, prevSub |-> 0,
   args |-> <<>>, isAssume |-> FALSE]

\* SygusSolver::SygusSolver, under one of the configurations O
SygusInit(O) ==
  /\ d_sygusVars = <<>>
  /\ d_sygusConstraints = <<>>
  /\ d_sygusAssumps = <<>>
  /\ d_sygusFunSymbols = <<>>
  /\ d_sygusConjectureStale = TRUE
  /\ d_subsolverCd = 0
  /\ d_subsolver = NoSubsolver
  /\ d_conj = NullNode
  /\ d_trivialFuns = <<>>
  /\ ctx = <<>>
  /\ opts \in O
  /\ nextFresh = 0
  /\ ret = NoRet("init", "NONE")

\* the process has not been aborted by a fatal error
Alive == ret.fatal = "NONE"

\* SygusSolver::usingSygusSubsolver
usingSygusSubsolver == opts.incrementalSolving

\* SygusSolver::declareSygusVar
DeclareSygusVar(var) ==
  /\ Alive
  /\ var \notin Range(d_sygusVars)
  /\ d_sygusVars' = Append(d_sygusVars, var)
  /\ ret' = NoRet("declareSygusVar", "NONE")
  /\ UNCHANGED <<d_sygusConstraints, d_sygusAssumps, d_sygusFunSymbols,
                 d_sygusConjectureStale, d_subsolverCd, d_subsolver, d_conj,
                 d_trivialFuns, ctx, opts, nextFresh>>

\* SygusSolver::checkDefinitionsSygusDt: whether an operator of the grammar
\* of fn has a free variable outside the declared functions
grammarHasFreeVariables(fn, funs) ==
  hasSygusType(fn) /\ ~(getFreeVariablesSygusType(fn) \subseteq Range(funs))

\* SygusSolver::declareSynthFun
DeclareSynthFun(fn) ==
  /\ Alive
  /\ fn \notin Range(d_sygusFunSymbols)
  /\ d_sygusFunSymbols' = Append(d_sygusFunSymbols, fn)
  /\ IF grammarHasFreeVariables(fn, d_sygusFunSymbols')
     THEN /\ ret' = [NoRet("declareSynthFun", "LogicException") EXCEPT
                       !.args = <<fn>>,
                       !.staleOnEntry = d_sygusConjectureStale]
          /\ UNCHANGED d_sygusConjectureStale
     ELSE /\ ret' = [NoRet("declareSynthFun", "NONE") EXCEPT
                       !.args = <<fn>>,
                       !.staleOnEntry = d_sygusConjectureStale]
          /\ d_sygusConjectureStale' = TRUE
  /\ UNCHANGED <<d_sygusVars, d_sygusConstraints, d_sygusAssumps,
                 d_subsolverCd, d_subsolver, d_conj, d_trivialFuns, ctx, opts,
                 nextFresh>>

\* variant: only the children of the outermost conjunction are split
miniscope_outermostOnly(n) ==
  IF n.kind = "AND" THEN n.args ELSE <<n>>

RECURSIVE miniscope(_)
\* the non-conjunction leaves of the top-level AND tree, left to right
miniscope(n) ==
  IF n.kind = "AND"
  THEN LET RECURSIVE cat(_)
           cat(i) == IF i > Len(n.args) THEN <<>>
                     ELSE miniscope(n.args[i]) \o cat(i + 1)
       IN cat(1)
  ELSE <<n>>

RECURSIVE hoistedVars(_)
\* the bound variables of the quantified leaves, in declaration order
hoistedVars(ls) ==
  IF Len(ls) = 0 THEN <<>>
  ELSE (IF Head(ls).kind = "FORALL" THEN Head(ls).args[1].args ELSE <<>>)
       \o hoistedVars(Tail(ls))

\* the term stored for a leaf: the body of a universal quantifier
storedTerm(l) == IF l.kind = "FORALL" THEN l.args[2] ELSE l

\* SygusSolver::assertSygusConstraint
AssertSygusConstraint(n, isAssume) ==
  LET ls == miniscope(n)
      stored == [i \in 1..Len(ls) |-> storedTerm(ls[i])]
  IN /\ Alive
     /\ d_sygusVars' = d_sygusVars \o hoistedVars(ls)
     /\ IF isAssume
        THEN /\ d_sygusAssumps' = d_sygusAssumps \o stored
             /\ UNCHANGED d_sygusConstraints
        ELSE /\ d_sygusConstraints' = d_sygusConstraints \o stored
             /\ UNCHANGED d_sygusAssumps
     /\ d_sygusConjectureStale' = TRUE
     /\ ret' = [NoRet("assertSygusConstraint", "NONE")
                   EXCEPT !.args = <<n>>, !.isAssume = isAssume]
     /\ UNCHANGED <<d_sygusFunSymbols, d_subsolverCd, d_subsolver, d_conj,
                    d_trivialFuns, ctx, opts, nextFresh>>

\* the names NodeManager::mkBoundVar gives the fresh variables
FreshName == <<"v1", "v2", "v3", "v4">>

PrimedName == <<"v1'", "v2'", "v3'", "v4'">>

\* the constraint built by assertSygusInvConstraint over vs and primed pvs
InvConstraint(inv, pre, trans, post, vs, pvs) ==
  LET t0 == App(inv, vs)
      t1 == App(pre, vs)
      t2 == App(trans, vs \o pvs)
      t3 == App(post, vs)
      t4 == App(inv, pvs)
  IN mkNode("AND", <<mkNode("IMPLIES", <<t1, t0>>),
                     mkNode("IMPLIES", <<mkNode("AND", <<t0, t2>>), t4>>),
                     mkNode("IMPLIES", <<t0, t3>>)>>)

\* variant: all the regular variables, then all the primed ones
interleave_regularThenPrimed(vs, pvs) == vs \o pvs

RECURSIVE interleave(_, _)
\* each regular variable followed by its primed copy
interleave(vs, pvs) ==
  IF Len(vs) = 0 THEN <<>>
  ELSE <<Head(vs), Head(pvs)>> \o interleave(Tail(vs), Tail(pvs))

\* SygusSolver::assertSygusInvConstraint
AssertSygusInvConstraint(inv, pre, trans, post) ==
  LET k == Len(getType(inv).args)
      vs == [i \in 1..k |-> Leaf("BOUND_VARIABLE", FreshName[nextFresh + i])]
      pvs == [i \in 1..k |-> Leaf("BOUND_VARIABLE", PrimedName[nextFresh + i])]
  IN /\ Alive
     /\ nextFresh' = nextFresh + k
     /\ d_sygusVars' = d_sygusVars \o interleave(vs, pvs)
     /\ d_sygusConstraints' =
          Append(d_sygusConstraints, InvConstraint(inv, pre, trans, post, vs, pvs))
     /\ d_sygusConjectureStale' = TRUE
     /\ ret' = [NoRet("assertSygusInvConstraint", "NONE")
                   EXCEPT !.args = <<inv, pre, trans, post>>]
     /\ UNCHANGED <<d_sygusAssumps, d_sygusFunSymbols, d_subsolverCd,
                    d_subsolver, d_conj, d_trivialFuns, ctx, opts>>

\* context::Context::push on the user context: the scope saves the sizes of
\* the CDLists and the values of the CDOs
Push ==
  /\ Alive
  /\ opts.incrementalSolving
  /\ ctx' = Append(ctx, [nVars |-> Len(d_sygusVars),
                         nConstraints |-> Len(d_sygusConstraints),
                         nAssumps |-> Len(d_sygusAssumps),
                         nFuns |-> Len(d_sygusFunSymbols),
                         stale |-> d_sygusConjectureStale,
                         subsolverCd |-> d_subsolverCd])
  /\ ret' = NoRet("push", "NONE")
  /\ UNCHANGED <<d_sygusVars, d_sygusConstraints, d_sygusAssumps,
                 d_sygusFunSymbols, d_sygusConjectureStale, d_subsolverCd,
                 d_subsolver, d_conj, d_trivialFuns, opts, nextFresh>>

\* context::Context::pop on the user context: every context-dependent
\* member reverts to its state at the matching push
Pop ==
  /\ Alive
  /\ Len(ctx) > 0
  /\ LET sc == ctx[Len(ctx)]
     IN /\ d_sygusVars' = SubSeq(d_sygusVars, 1, sc.nVars)
        /\ d_sygusConstraints' = SubSeq(d_sygusConstraints, 1, sc.nConstraints)
        /\ d_sygusAssumps' = SubSeq(d_sygusAssumps, 1, sc.nAssumps)
        /\ d_sygusFunSymbols' = SubSeq(d_sygusFunSymbols, 1, sc.nFuns)
        /\ d_sygusConjectureStale' = sc.stale
        /\ d_subsolverCd' = sc.subsolverCd
  /\ ctx' = SubSeq(ctx, 1, Len(ctx) - 1)
  /\ ret' = NoRet("pop", "NONE")
  /\ UNCHANGED <<d_subsolver, d_conj, d_trivialFuns, opts, nextFresh>>

(***************************************************************************)
(* checkSynth.                                                             *)
(***************************************************************************)
\* an initialisation that does not mark the conjecture as processed
initializeSygusSubsolver_keepsConjecture(a, conj) ==
  LET defs == SelectSeq(AssertionListDefinitions, LAMBDA d : d.kind = "EQUAL")
      processed == Range(defs)
  IN [addr |-> a, defs |-> defs,
      asserted |-> SelectSeq(AssertionList, LAMBDA x : x \notin processed)]

\* SygusSolver::initializeSygusSubsolver: a new solver at address a that
\* holds the define-funs of the outer assertions and every other outer
\* assertion except the current conjecture
initializeSygusSubsolver(a, conj) ==
  LET defs == SelectSeq(AssertionListDefinitions, LAMBDA d : d.kind = "EQUAL")
      processed == {conj} \cup Range(defs)
  IN [addr |-> a, defs |-> defs,
      asserted |-> SelectSeq(AssertionList, LAMBDA x : x \notin processed)]

\* SolverEngine::assertFormula on a sub-solver
assertFormula(se, n) == [se EXCEPT !.asserted = Append(@, n)]

\* whether checkSynth rebuilds the conjecture (lines 219-231)
\* variant: the stale flag is not consulted
mustRebuild_ignoresStale(isNext) ==
  \/ ~isNext
  \/ (usingSygusSubsolver /\ d_subsolverCd # d_subsolver.addr)

\* variant: a sub-solver is never reused
mustRebuild_neverReuses(isNext) ==
  \/ ~isNext
  \/ usingSygusSubsolver
  \/ d_sygusConjectureStale

\* variant: isNext = false does not force the reconstruction
mustRebuild_ignoresIsNext(isNext) ==
  \/ (usingSygusSubsolver /\ d_subsolverCd # d_subsolver.addr)
  \/ d_sygusConjectureStale

mustRebuild(isNext) ==
  \/ ~isNext
  \/ (usingSygusSubsolver /\ d_subsolverCd # d_subsolver.addr)
  \/ d_sygusConjectureStale

\* the conjecture body built from the lists in scope
CurrentBody == ConjectureBody(d_sygusConstraints, d_sygusAssumps, d_sygusVars)

\* the classification of the functions in scope
CurrentFuns == SynthFunsToSolve(opts, CurrentBody, d_sygusFunSymbols, d_trivialFuns)

\* the conjecture built from the lists in scope
CurrentConjecture == BuildConjecture(CurrentBody, CurrentFuns.ntriv)

\* the functions a synthesis conjecture quantifies
conjectureFuns(conj) ==
  IF conj.kind = "FORALL" THEN conj.args[1].args ELSE <<>>

\* the solution the quantifiers engine reports for a function
qeSolution(f) ==
  mkNode("LAMBDA", <<getSygusArgumentList(f), Leaf("BOUND_VARIABLE", "a")>>)

\* SygusSolver::getSynthSolutions: the solution map, given the map the
\* quantifiers engine filled in for the functions qeFuns
\* variant: the trivial functions get no placeholder
getSynthSolutionsMap_noPlaceholders(qeFuns, trivial) ==
  [f \in qeFuns \ Range(trivial) |-> qeSolution(f)]

getSynthSolutionsMap(qeFuns, trivial) ==
  [f \in qeFuns \cup Range(trivial) |->
     IF f \in Range(trivial) THEN mkSygusTermFor(f) ELSE qeSolution(f)]

\* SygusSolver::canTrustSynthesisResult
canTrustSynthesisResult(o) == ~o.cegisSampleTrust

\* SygusSolver::checkSynthSolution: the warnings, the fatal error (if any)
\* and whether a verification solver was created, for a verification
\* result vres of the single conjecture d_conj
\* variant: an unknown verification result does not clear the hard failure
checkSynthSolution_unknownIsHard(o, solMap, vres) ==
  LET canTrustResult == canTrustSynthesisResult(o)
      w0 == IF canTrustResult THEN {} ELSE {"not guaranteed to pass"}
      hardFailure == canTrustResult
  IN IF DOMAIN solMap = {}
     THEN [warnings |-> w0, fatal |-> "EMPTY_SOLUTION", checkerCreated |-> FALSE]
     ELSE IF vres = "UNSAT"
     THEN [warnings |-> w0, fatal |-> "NONE", checkerCreated |-> TRUE]
     ELSE IF hardFailure
     THEN [warnings |-> w0, fatal |-> "SATISFIABLE", checkerCreated |-> TRUE]
     ELSE [warnings |-> w0 \cup {IF vres = "SAT" THEN "satisfiable negated conjecture"
                                 ELSE "result unknown"},
           fatal |-> "NONE", checkerCreated |-> TRUE]

\* variant: an empty solution map is subject to the trust setting
checkSynthSolution_emptyDowngraded(o, solMap, vres) ==
  LET canTrustResult == canTrustSynthesisResult(o)
      w0 == IF canTrustResult THEN {} ELSE {"not guaranteed to pass"}
      hardFailure == IF vres = "SAT" THEN canTrustResult ELSE FALSE
  IN IF DOMAIN solMap = {}
     THEN [warnings |-> w0,
           fatal |-> IF canTrustResult THEN "EMPTY_SOLUTION" ELSE "NONE",
           checkerCreated |-> FALSE]
     ELSE IF vres = "UNSAT"
     THEN [warnings |-> w0, fatal |-> "NONE", checkerCreated |-> TRUE]
     ELSE IF hardFailure
     THEN [warnings |-> w0, fatal |-> "SATISFIABLE", checkerCreated |-> TRUE]
     ELSE [warnings |-> w0 \cup {IF vres = "SAT" THEN "satisfiable negated conjecture"
                                 ELSE "result unknown"},
           fatal |-> "NONE", checkerCreated |-> TRUE]

checkSynthSolution(o, solMap, vres) ==
  LET canTrustResult == canTrustSynthesisResult(o)
      w0 == IF canTrustResult THEN {} ELSE {"not guaranteed to pass"}
      hardFailure == IF vres = "SAT" THEN canTrustResult ELSE FALSE
  IN IF DOMAIN solMap = {}
     THEN [warnings |-> w0, fatal |-> "EMPTY_SOLUTION", checkerCreated |-> FALSE]
     ELSE IF vres = "UNSAT"
     THEN [warnings |-> w0, fatal |-> "NONE", checkerCreated |-> TRUE]
     ELSE IF hardFailure
     THEN [warnings |-> w0, fatal |-> "SATISFIABLE", checkerCreated |-> TRUE]
     ELSE [warnings |-> w0 \cup {IF vres = "SAT" THEN "satisfiable negated conjecture"
                                 ELSE "result unknown"},
           fatal |-> "NONE", checkerCreated |-> TRUE]

\* the interpretation of the result (lines 393-416)
\* variant: the raw status is tested before the extracted solution
synthResult_rawFirst(solFound, raw) ==
  IF raw = "UNSAT" THEN "NO_SOLUTION"
  ELSE IF solFound THEN "SOLUTION"
  ELSE "UNKNOWN"

\* variant: a solution counts only when the raw status is not UNSAT
synthResult_needsRaw(solFound, raw) ==
  IF solFound /\ raw # "UNSAT" THEN "SOLUTION"
  ELSE IF raw = "UNSAT" THEN "NO_SOLUTION"
  ELSE "UNKNOWN"

synthResult(solFound, raw) ==
  IF solFound THEN "SOLUTION"
  ELSE IF raw = "UNSAT" THEN "NO_SOLUTION"
  ELSE "UNKNOWN"

\* the verification (lines 400-404): runs iff a solution was found and
\* options().smt.checkSynthSol is set
verification(o, solFound, solMap, vres) ==
  IF solFound /\ o.checkSynthSol
  THEN checkSynthSolution(o, solMap, vres)
  ELSE [warnings |-> {}, fatal |-> "NONE", checkerCreated |-> FALSE]

\* lines 352-417 of checkSynth, after the conjecture and the sub-solver are
\* in place: the satisfiability call, the extraction of solutions, the
\* optional verification and the result
CheckSynthFinish(isNext, rebuilt, passes, ntriv, raw, qeRet, qeAll, vres) ==
  LET sub == d_subsolver'
      solFound == IF usingSygusSubsolver
                  THEN (IF sub.addr # 0 THEN qeRet ELSE FALSE)
                  ELSE qeRet
      qeFuns == IF qeAll THEN Range(conjectureFuns(d_conj')) ELSE {}
      solMap == IF solFound THEN getSynthSolutionsMap(qeFuns, d_trivialFuns')
                ELSE <<>>
      v == verification(opts, solFound, solMap, vres)
  IN /\ (solFound /\ opts.checkSynthSol /\ DOMAIN solMap # {}) <=> (vres # "NONE")
     /\ solFound \/ ~qeAll
     /\ ret' = [op |-> "checkSynth", threw |-> "NONE", isNext |-> isNext,
                rebuilt |-> rebuilt, created |-> (rebuilt /\ usingSygusSubsolver),
                queried |-> IF usingSygusSubsolver THEN sub.addr ELSE 0,
                raw |-> raw, solFound |-> solFound, solMap |-> solMap,
                vres |-> vres,
                sr |-> IF v.fatal = "NONE" THEN synthResult(solFound, raw) ELSE "NONE",
                fatal |-> v.fatal, warnings |-> v.warnings,
                checkerCreated |-> v.checkerCreated, passes |-> passes,
                ntriv |-> ntriv, prevOp |-> ret.op,
                staleOnEntry |-> d_sygusConjectureStale,
                hadConj |-> (d_conj # NullNode), prevSub |-> d_subsolver.addr]

\* SygusSolver::checkSynth
CheckSynth(isNext, a, raw, qeRet, qeAll, vres) ==
  /\ Alive
  /\ IF mustRebuild(isNext)
     THEN /\ IF usingSygusSubsolver
             THEN a \in (1..NumAddrs) \ {d_subsolver.addr}
             ELSE a = 0
          /\ d_trivialFuns' = CurrentFuns.triv
          /\ d_sygusConjectureStale' = FALSE
          /\ d_conj' = CurrentConjecture
          /\ IF usingSygusSubsolver
             THEN /\ d_subsolver' =
                       assertFormula(initializeSygusSubsolver(a, d_conj'), d_conj')
                  /\ d_subsolverCd' = a
             ELSE UNCHANGED <<d_subsolver, d_subsolverCd>>
          /\ CheckSynthFinish(isNext, TRUE, CurrentFuns.passes, CurrentFuns.ntriv,
                              raw, qeRet, qeAll, vres)
     ELSE /\ a = 0
          /\ UNCHANGED <<d_trivialFuns, d_sygusConjectureStale, d_conj,
                         d_subsolver, d_subsolverCd>>
          /\ IF opts.assertions /\ d_subsolver.addr = 0
             THEN /\ raw = "NONE" /\ ~qeRet /\ ~qeAll /\ vres = "NONE"
                  /\ ret' = [NoRet("checkSynth", "NONE") EXCEPT
                               !.isNext = isNext, !.fatal = "ASSERTION",
                               !.prevOp = ret.op,
                               !.staleOnEntry = d_sygusConjectureStale,
                               !.hadConj = (d_conj # NullNode),
                               !.prevSub = d_subsolver.addr]
             ELSE /\ raw # "NONE"
                  /\ CheckSynthFinish(isNext, FALSE, 0, <<>>, raw, qeRet, qeAll, vres)
  /\ mustRebuild(isNext) => raw # "NONE"
  /\ UNCHANGED <<d_sygusVars, d_sygusConstraints, d_sygusAssumps,
                 d_sygusFunSymbols, ctx, opts, nextFresh>>

(***************************************************************************)
(* The ModelManager (theory/model_manager.cpp).  buildModel is followed    *)
(* through its steps: entry, one collectModelInfo per consulted theory,    *)
(* the collection of the Boolean variables, the model builder, and the     *)
(* return.  The solver is single-threaded: no other operation of the       *)
(* manager starts while a buildModel is under way.                         *)
(***************************************************************************)
\* THEORY_LAST: the theory ids are 0 .. LastTheory - 1
LastTheory == 4
\* number of Boolean variables the SAT engine knows
NumBoolVars == 2
\* maximal number of post-processing runs followed between two resetModel
MaxPostProcess == 2

THEORY_BUILTIN == 0

THEORY_BOOL == 1

TheoryIds == 0..(LastTheory - 1)

\* propEngine->getBooleanVariables: the variables in the order of the vector
BoolVars == 1..NumBoolVars

\* what propEngine->hasValue reports for a variable
SatValues == {"TRUE", "FALSE", "NONE"}

VARIABLES
  d_modelBuilt,         \* bool
  d_modelBuiltSuccess,  \* bool
  d_modelBuilder,       \* "nullptr" until finishInit chose a builder
  d_modelEeContext,     \* depth of the nested context of the model
  d_model,              \* the model object: what was collected into it
  rmEnabled,            \* ResourceManager: limits are accounted
  mmEnv,                \* the logic, the options and the theories that exist
  mmPc,                 \* position of the buildModel under way
  mmCall,               \* the last call: what it did and returned
  mmRound               \* what was run since the last resetModel

mmVars == <<d_modelBuilt, d_modelBuiltSuccess, d_modelBuilder, d_modelEeContext,
            d_model, rmEnabled, mmEnv, mmPc, mmCall, mmRound>>

\* TheoryModel after construction and after reset()
EmptyModel == [info |-> <<>>, preds |-> <<>>, built |-> FALSE]

\* the logics, options and theory engines the manager runs under: Builtin
\* and Bool are enabled in every logic, and a theory enabled in the logic
\* exists in the theory engine
ModelEnvs ==
  {e \in [enabled : SUBSET TheoryIds, active : SUBSET TheoryIds,
          quantified : BOOLEAN, produceModels : BOOLEAN] :
     /\ {THEORY_BUILTIN, THEORY_BOOL} \subseteq e.enabled
     /\ e.enabled \subseteq e.active}

Idle == [at |-> "idle", theoryId |-> 0]

NoCall(op) ==
  [op |-> op, cached |-> FALSE, result |-> "NONE", rm |-> <<>>, ctx |-> <<>>,
   consulted |-> <<>>, failedAt |-> -1, boolCollected |-> FALSE,
   builderRun |-> FALSE, hooks |-> <<>>, builderPost |-> FALSE,
   fatal |-> "NONE", builtOnEntry |-> FALSE, successOnEntry |-> FALSE,
   sat |-> <<>>]

\* theory, builder: runs of the post-processing hooks; prepares, builds:
\* runs of prepareModel and of finishBuildModel; prepared, result: what the
\* prepareModel and the buildModel of the round returned; resetBuilt: the
\* resetModel that opened the round found a built model
NoRound ==
  [theory |-> [t \in TheoryIds |-> 0], builder |-> 0, prepares |-> 0,
   builds |-> 0, prepared |-> "NONE", result |-> "NONE", resetBuilt |-> FALSE]

\* ModelManager::ModelManager, under one of the environments E
ModelManagerInit(E) ==
  /\ d_modelBuilt = FALSE
  /\ d_modelBuiltSuccess = FALSE
  /\ d_modelBuilder = "nullptr"
  /\ d_modelEeContext = 0
  /\ d_model = EmptyModel
  /\ rmEnabled = TRUE
  /\ mmEnv \in E
  /\ mmPc = Idle
  /\ mmCall = NoCall("init")
  /\ mmRound = NoRound

\* no AlwaysAssert has ended the process
ModelAlive == mmCall.fatal = "NONE"

\* the manager is initialized and no call is under way
ModelReady == ModelAlive /\ d_modelBuilder # "nullptr" /\ mmPc.at = "idle"

\* variant: the initialization does not push the context of the model
FinishInit_noPush(qeBuilder) ==
  /\ ModelAlive /\ d_modelBuilder = "nullptr" /\ mmPc.at = "idle"
  /\ d_modelBuilder' = IF mmEnv.quantified /\ qeBuilder THEN "quantifiers"
                       ELSE "default"
  /\ d_modelEeContext' = d_modelEeContext
  /\ mmCall' = NoCall("finishInit")
  /\ UNCHANGED <<d_modelBuilt, d_modelBuiltSuccess, d_model, rmEnabled, mmEnv,
                 mmPc, mmRound>>

\* ModelManager::finishInit; qeBuilder: the quantifiers engine has a builder
FinishInit(qeBuilder) ==
  /\ ModelAlive /\ d_modelBuilder = "nullptr" /\ mmPc.at = "idle"
  /\ d_modelBuilder' = IF mmEnv.quantified /\ qeBuilder THEN "quantifiers"
                       ELSE "default"
  /\ d_modelEeContext' = d_modelEeContext + 1
  /\ mmCall' = [NoCall("finishInit") EXCEPT !.ctx = <<"push">>]
  /\ UNCHANGED <<d_modelBuilt, d_modelBuiltSuccess, d_model, rmEnabled, mmEnv,
                 mmPc, mmRound>>

\* variant: only the success flag and the model are reset
ResetModel_keepsBuilt ==
  /\ ModelReady
  /\ d_modelBuilt' = d_modelBuilt
  /\ d_modelBuiltSuccess' = FALSE
  /\ d_model' = EmptyModel
  /\ mmRound' = [NoRound EXCEPT !.resetBuilt = d_modelBuilt]
  /\ mmCall' = [NoCall("resetModel") EXCEPT !.builtOnEntry = d_modelBuilt,
                                            !.successOnEntry = d_modelBuiltSuccess]
  /\ UNCHANGED <<d_modelBuilder, d_modelEeContext, rmEnabled, mmEnv, mmPc>>

\* variant: only the built flag and the model are reset
ResetModel_keepsSuccess ==
  /\ ModelReady
  /\ d_modelBuilt' = FALSE
  /\ d_modelBuiltSuccess' = d_modelBuiltSuccess
  /\ d_model' = EmptyModel
  /\ mmRound' = [NoRound EXCEPT !.resetBuilt = d_modelBuilt]
  /\ mmCall' = [NoCall("resetModel") EXCEPT !.builtOnEntry = d_modelBuilt,
                                            !.successOnEntry = d_modelBuiltSuccess]
  /\ UNCHANGED <<d_modelBuilder, d_modelEeContext, rmEnabled, mmEnv, mmPc>>

\* ModelManager::resetModel
ResetModel ==
  /\ ModelReady
  /\ d_modelBuilt' = FALSE
  /\ d_modelBuiltSuccess' = FALSE
  /\ d_model' = EmptyModel
  /\ mmRound' = [NoRound EXCEPT !.resetBuilt = d_modelBuilt]
  /\ mmCall' = [NoCall("resetModel") EXCEPT !.builtOnEntry = d_modelBuilt,
                                            !.successOnEntry = d_modelBuiltSuccess]
  /\ UNCHANGED <<d_modelBuilder, d_modelEeContext, rmEnabled, mmEnv, mmPc>>

\* variant: nothing is cached
alreadyComputed_never == FALSE

\* variant: only a successful build is cached
alreadyComputed_onlySuccess == d_modelBuilt /\ d_modelBuiltSuccess

\* the test that opens buildModel: the model was already computed
alreadyComputed == d_modelBuilt

\* ModelManager::buildModel up to the first collectModelInfo: the cached
\* return, or the disabling of the resource manager, the flags and the
\* pop and push that open prepareModel
BuildModel ==
  /\ ModelReady
  /\ IF alreadyComputed
     THEN /\ mmCall' = [NoCall("buildModel") EXCEPT
                          !.cached = TRUE,
                          !.result = IF d_modelBuiltSuccess THEN "TRUE" ELSE "FALSE",
                          !.builtOnEntry = TRUE,
                          !.successOnEntry = d_modelBuiltSuccess]
          /\ UNCHANGED <<d_modelBuilt, d_modelBuiltSuccess, d_modelEeContext,
                         rmEnabled, mmPc, mmRound>>
     ELSE /\ rmEnabled' = FALSE
          /\ d_modelBuilt' = TRUE
          /\ d_modelBuiltSuccess' = FALSE
          /\ d_modelEeContext' = (d_modelEeContext - 1) + 1
          /\ mmPc' = [at |-> "collect", theoryId |-> 0]
          /\ mmCall' = [NoCall("buildModel") EXCEPT
                          !.rm = <<FALSE>>, !.ctx = <<"pop", "push">>,
                          !.builtOnEntry = d_modelBuilt,
                          !.successOnEntry = d_modelBuiltSuccess]
          /\ mmRound' = [mmRound EXCEPT !.prepares = @ + 1]
  /\ UNCHANGED <<d_modelBuilder, d_model, mmEnv>>

\* variant: every theory of the theory engine is consulted, whatever the
\* logic enables
toConsult_ignoresLogic(theoryId) ==
  {t \in TheoryIds : /\ t >= theoryId
                     /\ t \in mmEnv.active
                     /\ t \notin {THEORY_BOOL, THEORY_BUILTIN}}

\* the theories the loop of prepareModel still consults, from theoryId on
toConsult(theoryId) ==
  {t \in TheoryIds : /\ t >= theoryId
                     /\ t \in mmEnv.enabled
                     /\ t \notin {THEORY_BOOL, THEORY_BUILTIN}}

\* the smallest element of a non-empty set of theory ids
firstOf(S) == CHOOSE t \in S : \A u \in S : t <= u

\* prepareModel: the iteration of the loop that consults the next theory;
\* ok is what its collectModelInfo returns
CollectModelInfo(ok) ==
  /\ ModelAlive /\ mmPc.at = "collect" /\ toConsult(mmPc.theoryId) # {}
  /\ LET t == firstOf(toConsult(mmPc.theoryId))
     IN /\ mmCall' = [mmCall EXCEPT !.consulted = Append(@, t),
                                    !.failedAt = IF ok THEN @ ELSE t]
        /\ IF ok
           THEN /\ d_model' = [d_model EXCEPT !.info = Append(@, t)]
                /\ mmPc' = [at |-> "collect", theoryId |-> t + 1]
           ELSE /\ d_model' = d_model
                /\ mmPc' = [at |-> "return", theoryId |-> t]
        /\ mmRound' = [mmRound EXCEPT !.prepared = IF ok THEN @ ELSE "FALSE"]
  /\ UNCHANGED <<d_modelBuilt, d_modelBuiltSuccess, d_modelBuilder,
                 d_modelEeContext, rmEnabled, mmEnv>>

\* the variables collectModelBooleanVariables gets to before it returns;
\* failAt: the variable whose assertPredicate returns false, 0 for none
reachedVars(failAt) == IF failAt = 0 THEN BoolVars ELSE 1..failAt

\* ModelManager::collectModelBooleanVariables, at the end of prepareModel;
\* sat: what the SAT engine reports for each variable
CollectModelBooleanVariables(sat, failAt) ==
  /\ ModelAlive /\ mmPc.at = "collect" /\ toConsult(mmPc.theoryId) = {}
  /\ d_model' = [d_model EXCEPT
                   !.preds = [v \in reachedVars(failAt) |-> sat[v] = "TRUE"]]
  /\ mmCall' = [mmCall EXCEPT !.boolCollected = TRUE,
                              !.sat = [v \in reachedVars(failAt) |-> sat[v]]]
  /\ mmPc' = [at |-> IF failAt = 0 THEN "finish" ELSE "return",
              theoryId |-> LastTheory]
  /\ mmRound' = [mmRound EXCEPT !.prepared = IF failAt = 0 THEN "TRUE" ELSE "FALSE"]
  /\ UNCHANGED <<d_modelBuilt, d_modelBuiltSuccess, d_modelBuilder,
                 d_modelEeContext, rmEnabled, mmEnv>>

\* ModelManager::finishBuildModel; ok is what the builder's buildModel returns
FinishBuildModel(ok) ==
  /\ ModelAlive /\ mmPc.at = "finish"
  /\ d_modelBuiltSuccess' = ok
  /\ d_model' = [d_model EXCEPT !.built = ok]
  /\ mmCall' = [mmCall EXCEPT !.builderRun = TRUE]
  /\ mmPc' = [mmPc EXCEPT !.at = "return"]
  /\ mmRound' = [mmRound EXCEPT !.builds = @ + 1]
  /\ UNCHANGED <<d_modelBuilt, d_modelBuilder, d_modelEeContext, rmEnabled,
                 mmEnv>>

\* variant: the resource manager is enabled again only after a success
BuildModelReturn_disabledOnFailure ==
  /\ ModelAlive /\ mmPc.at = "return"
  /\ rmEnabled' = d_modelBuiltSuccess
  /\ mmCall' = [mmCall EXCEPT
                  !.rm = Append(@, d_modelBuiltSuccess),
                  !.result = IF d_modelBuiltSuccess THEN "TRUE" ELSE "FALSE"]
  /\ mmPc' = Idle
  /\ mmRound' = [mmRound EXCEPT
                   !.result = IF d_modelBuiltSuccess THEN "TRUE" ELSE "FALSE"]
  /\ UNCHANGED <<d_modelBuilt, d_modelBuiltSuccess, d_modelBuilder,
                 d_modelEeContext, d_model, mmEnv>>

\* the end of buildModel: the resource manager is enabled and the flag
\* returned
BuildModelReturn ==
  /\ ModelAlive /\ mmPc.at = "return"
  /\ rmEnabled' = TRUE
  /\ mmCall' = [mmCall EXCEPT
                  !.rm = Append(@, TRUE),
                  !.result = IF d_modelBuiltSuccess THEN "TRUE" ELSE "FALSE"]
  /\ mmPc' = Idle
  /\ mmRound' = [mmRound EXCEPT
                   !.result = IF d_modelBuiltSuccess THEN "TRUE" ELSE "FALSE"]
  /\ UNCHANGED <<d_modelBuilt, d_modelBuiltSuccess, d_modelBuilder,
                 d_modelEeContext, d_model, mmEnv>>

RECURSIVE activeFrom(_)
\* the theories of the theory engine from t on, in increasing order
activeFrom(t) ==
  IF t >= LastTheory THEN <<>>
  ELSE (IF t \in mmEnv.active THEN <<t>> ELSE <<>>) \o activeFrom(t + 1)

\* variant: the hooks run whether or not models are produced
PostProcessModel_ignoresProduceModels(incomplete) ==
  /\ ModelReady
  /\ LET entry == [NoCall("postProcessModel") EXCEPT
                     !.builtOnEntry = d_modelBuilt,
                     !.successOnEntry = d_modelBuiltSuccess]
     IN IF ~d_modelBuilt
        THEN mmCall' = entry /\ UNCHANGED mmRound
        ELSE IF ~d_modelBuiltSuccess
        THEN mmCall' = [entry EXCEPT !.fatal = "ALWAYS_ASSERT"] /\ UNCHANGED mmRound
        ELSE IF FALSE
        THEN mmCall' = entry /\ UNCHANGED mmRound
        ELSE /\ mmCall' = [entry EXCEPT !.hooks = activeFrom(0),
                                        !.builderPost = TRUE]
             /\ mmRound' = [mmRound EXCEPT
                              !.theory = [t \in TheoryIds |->
                                            IF t \in mmEnv.active THEN @[t] + 1
                                            ELSE @[t]],
                              !.builder = @ + 1]
  /\ UNCHANGED <<d_modelBuilt, d_modelBuiltSuccess, d_modelBuilder,
                 d_modelEeContext, d_model, rmEnabled, mmEnv, mmPc>>

\* ModelManager::postProcessModel
PostProcessModel(incomplete) ==
  /\ ModelReady
  /\ LET entry == [NoCall("postProcessModel") EXCEPT
                     !.builtOnEntry = d_modelBuilt,
                     !.successOnEntry = d_modelBuiltSuccess]
     IN IF ~d_modelBuilt
        THEN mmCall' = entry /\ UNCHANGED mmRound
        ELSE IF ~d_modelBuiltSuccess
        THEN mmCall' = [entry EXCEPT !.fatal = "ALWAYS_ASSERT"] /\ UNCHANGED mmRound
        ELSE IF ~mmEnv.produceModels
        THEN mmCall' = entry /\ UNCHANGED mmRound
        ELSE /\ mmCall' = [entry EXCEPT !.hooks = activeFrom(0),
                                        !.builderPost = TRUE]
             /\ mmRound' = [mmRound EXCEPT
                              !.theory = [t \in TheoryIds |->
                                            IF t \in mmEnv.active THEN @[t] + 1
                                            ELSE @[t]],
                              !.builder = @ + 1]
  /\ UNCHANGED <<d_modelBuilt, d_modelBuiltSuccess, d_modelBuilder,
                 d_modelEeContext, d_model, rmEnabled, mmEnv, mmPc>>

(***************************************************************************)
(* The notify class of the central equality engine (theory/ee_manager.h,   *)
(* EqEngineManager::CentralNotifyClass): the lists of notify objects per   *)
(* kind of event, filled when the theories are initialized, and the        *)
(* dispatch of an event.                                                   *)
(***************************************************************************)
VARIABLES
  d_centralEENotify, \* d_newClassNotify, d_mergeNotify, d_disequalNotify,
                     \* d_mNotify; registered: the theories set up so far
  eeDispatch         \* the last event and the notify objects it reached

eeVars == <<d_centralEENotify, eeDispatch>>

EeEvents == {"newClass", "merge", "disequal"}

\* EqEngineManager::EqEngineManager: no notify object is registered
CentralInit ==
  /\ d_centralEENotify =
       [d_newClassNotify |-> <<>>, d_mergeNotify |-> <<>>,
        d_disequalNotify |-> <<>>, d_mNotify |-> "model", registered |-> <<>>]
  /\ eeDispatch = [event |-> "none", to |-> <<>>, failed |-> FALSE]

\* initializeTheories, for the next theory: its notify object is appended
\* to the list of every kind of event its setup information asks for
InitializeTheory(needs) ==
  /\ Len(d_centralEENotify.registered) < LastTheory - THEORY_BOOL
  /\ LET tid == THEORY_BOOL + Len(d_centralEENotify.registered) + 1
     IN d_centralEENotify' =
          [d_centralEENotify EXCEPT
             !.d_newClassNotify = IF "newClass" \in needs THEN Append(@, tid) ELSE @,
             !.d_mergeNotify = IF "merge" \in needs THEN Append(@, tid) ELSE @,
             !.d_disequalNotify = IF "disequal" \in needs THEN Append(@, tid) ELSE @,
             !.registered = Append(@, [tid |-> tid, needs |-> needs])]
  /\ UNCHANGED eeDispatch

\* a dispatch that goes through the list from its end
dispatch_reversed(cn, event) ==
  LET l == IF event = "newClass" THEN cn.d_newClassNotify
           ELSE IF event = "merge" THEN cn.d_mergeNotify
           ELSE cn.d_disequalNotify
  IN [i \in 1..Len(l) |-> l[Len(l) + 1 - i]] \o <<cn.d_mNotify>>

\* CentralNotifyClass::eqNotifyNewClass, eqNotifyMerge, eqNotifyDisequal:
\* the notify objects reached, in order
dispatch(cn, event) ==
  LET l == IF event = "newClass" THEN cn.d_newClassNotify
           ELSE IF event = "merge" THEN cn.d_mergeNotify
           ELSE cn.d_disequalNotify
  IN l \o <<cn.d_mNotify>>

\* an event of the central equality engine, once the theories are set up
EqNotify(event) ==
  /\ Len(d_centralEENotify.registered) = LastTheory - THEORY_BOOL
  /\ eeDispatch' = [event |-> event, to |-> dispatch(d_centralEENotify, event),
                    failed |-> FALSE]
  /\ UNCHANGED d_centralEENotify

(***************************************************************************)
(* The terms of the theory of bags (theory/bags/theory_bags.cpp): the      *)
(* terms handed to preRegisterTerm, the equality engine that holds them,   *)
(* and the terms collected per kind by initialize().  The equality engine  *)
(* and the valuation are collaborators.                                    *)
(***************************************************************************)
\* maximal number of terms in the equality engine
MaxEeTerms == 2
\* maximal number of context levels pushed over the first
MaxLevels == 1

ElemTerms == {Leaf("VARIABLE", "e1"), Leaf("VARIABLE", "e2")}

BagTerms == {Leaf("VARIABLE", "A"), Leaf("VARIABLE", "B")}

Two == Leaf("CONST_INTEGER", "2")

CountTerms ==
  {mkNode("BAG_COUNT", <<e, b>>) : e \in ElemTerms, b \in BagTerms}
    \ {mkNode("BAG_COUNT", <<Leaf("VARIABLE", "e1"), Leaf("VARIABLE", "B")>>)}

MakeTerms == {mkNode("BAG_MAKE", <<e, Two>>) : e \in ElemTerms}

\* the terms given to preRegisterTerm
BagInputTerms ==
  CountTerms \cup MakeTerms
    \cup {Eq(Leaf("VARIABLE", "A"), Leaf("VARIABLE", "B")),
          mkNode("BAG_MAP", <<Leaf("VARIABLE", "f"), Leaf("VARIABLE", "A")>>),
          mkNode("BAG_PARTITION", <<Leaf("VARIABLE", "r"), Leaf("VARIABLE", "A")>>)}

VARIABLES
  bagsEnv,          \* options().bags.bags, the type of the elements, the
                    \* sorts whose terms are shared with other theories
  d_equalityEngine, \* terms, trigger predicates, merged and disequal leaves
  d_opMap,          \* the terms of the equality engine collected by initialize()
  d_careGraph,      \* the care pairs added by addCarePairArgs
  bagsTermCall      \* the last operation on terms and what it did

bagsTermVars ==
  <<bagsEnv, d_equalityEngine, d_opMap, d_careGraph, bagsTermCall>>

BagsEnvs ==
  [bags : BOOLEAN, elemIsBag : BOOLEAN, sharedElems : BOOLEAN,
   sharedBags : BOOLEAN]

NoTermCall(op) ==
  [op |-> op, args |-> <<>>, threw |-> "NONE", lemmas |-> <<>>,
   processed |-> {}, before |-> <<>>, termSet |-> {}, elems |-> <<>>,
   mrep |-> <<>>, asserted |-> <<>>]

BagsTermsInit(E) ==
  /\ bagsEnv \in E
  /\ d_equalityEngine =
       [terms |-> {}, triggers |-> {}, eqElems |-> FALSE, eqBags |-> FALSE,
        diseqElems |-> FALSE, diseqBags |-> FALSE, injective |-> {},
        merged |-> {}, saved |-> <<>>]
  /\ d_opMap = <<>>
  /\ d_careGraph = {}
  /\ bagsTermCall = NoTermCall("init")

\* TypeNode::isBag of the type of a term
isBag(env, t) ==
  \/ t \in BagTerms
  \/ t \in ElemTerms /\ env.elemIsBag
  \/ t.kind = "BAG_MAKE"

RECURSIVE areEqual(_, _, _)
\* EqualityEngine::areEqual: merged leaves, applications asserted equal,
\* and congruent applications
areEqual(ee, x, y) ==
  \/ x = y
  \/ {x, y} \in ee.merged
  \/ {x, y} = ElemTerms /\ ee.eqElems
  \/ {x, y} = BagTerms /\ ee.eqBags
  \/ /\ x.kind = y.kind /\ Len(x.args) > 0 /\ Len(x.args) = Len(y.args)
     /\ \A i \in 1..Len(x.args) : areEqual(ee, x.args[i], y.args[i])

\* EqualityEngine::getRepresentative: one term of the class, the same for
\* every member
getRepresentative(ee, t) ==
  IF t \in ElemTerms /\ ee.eqElems THEN Leaf("VARIABLE", "e1")
  ELSE IF t \in BagTerms /\ ee.eqBags THEN Leaf("VARIABLE", "A")
  ELSE t

\* EqualityEngine::isTriggerTerm(t, THEORY_BAGS)
isTriggerTerm(env, t) ==
  \/ t \in ElemTerms /\ env.sharedElems
  \/ t \in BagTerms /\ env.sharedBags

\* Theory::areCareDisequal: two shared terms that the valuation reports
\* disequal
areCareDisequal(env, ee, x, y) ==
  /\ isTriggerTerm(env, x) /\ isTriggerTerm(env, y)
  /\ \/ {x, y} = ElemTerms /\ ee.diseqElems
     \/ {x, y} = BagTerms /\ ee.diseqBags

\* the sequences that list every element of S once
Orders(S) ==
  {s \in [1..Cardinality(S) -> S] : \A i, j \in 1..Cardinality(S) :
                                       s[i] = s[j] => i = j}

\* TheoryBags::collectBagsAndCountTerms: every term of every class of the
\* equality engine, in the order of its iterators
collectBagsAndCountTerms(ee) == Orders(ee.terms)

\* an initialization that does not clear the index of the round before
initialize_withoutClear(opMap, ee) ==
  {opMap \o s : s \in collectBagsAndCountTerms(ee)}

\* TheoryBags::initialize: d_opMap.clear(), then the terms are collected
initialize(opMap, ee) ==
  {<<>> \o s : s \in collectBagsAndCountTerms(ee)}

(***************************************************************************)
(* The check loop of the theory of bags (theory/bags/theory_bags.cpp):     *)
(* postCheck, followed through its rounds, and runStrategy, followed       *)
(* through the steps of the strategy.  The buffered inference manager and  *)
(* the solver's checks are collaborators: a check is an input that says    *)
(* what it queued, what it sent and whether it raised a conflict.          *)
(***************************************************************************)
\* maximal number of rounds followed in one postCheck
MaxRounds == 2
\* maximal number of facts, and of lemmas, pending in the inference manager
MaxPending == 1

\* the strategy of the full effort: each step is followed by a break
\* (Strategy::initializeStrategy)
StrategySteps ==
  <<"CHECK_INIT", "BREAK", "CHECK_BAG_MAKE", "BREAK",
    "CHECK_BASIC_OPERATIONS", "BREAK", "CHECK_QUANTIFIED_OPERATIONS", "BREAK">>

VARIABLES
  d_im,       \* InferenceManagerBuffered: pending facts and lemmas, lemmas sent
  d_state,    \* SolverState: the conflict flag
  bagsPc,     \* position in postCheck, with its locals
  bagsCall    \* the last round: what happened in it and what was decided

bagsVars == <<d_im, d_state, bagsPc, bagsCall>>

vars == <<d_sygusVars, d_sygusConstraints, d_sygusAssumps, d_sygusFunSymbols,
          d_sygusConjectureStale, d_subsolverCd, d_subsolver, d_conj,
          d_trivialFuns, ctx, opts, nextFresh, ret, d_modelBuilt,
          d_modelBuiltSuccess, d_modelBuilder, d_modelEeContext, d_model,
          rmEnabled, mmEnv, mmPc, mmCall, mmRound, d_im, d_state, bagsPc,
          bagsCall, bagsEnv, d_equalityEngine, d_opMap, d_careGraph,
          bagsTermCall, d_centralEENotify, eeDispatch>>

BagsIdle ==
  [at |-> "idle", it |-> 0, rounds |-> 0, sentLemma |-> FALSE,
   hadPending |-> FALSE]

\* a round: the lemmas sent in it, the facts and lemmas pending before the
\* flush, the conflict flag at its end, whether another round followed, the
\* inference steps run and whether the last of them reported true
NoBagsCall(op) ==
  [op |-> op, rounds |-> 0, sent |-> 0, pendingFacts |-> 0,
   pendingLemmas |-> 0, conflict |-> FALSE, tested |-> FALSE,
   repeated |-> FALSE, ranStrategy |-> FALSE, steps |-> <<>>,
   reported |-> FALSE, fatal |-> "NONE"]

\* TheoryBags::TheoryBags
TheoryBagsInit ==
  /\ d_im = [pendingFacts |-> 0, pendingLemmas |-> 0, numCurrentLemmas |-> 0]
  /\ d_state = [conflict |-> FALSE]
  /\ bagsPc = BagsIdle
  /\ bagsCall = NoBagsCall("init")

BagsAlive == bagsCall.fatal = "NONE"

\* InferenceManagerBuffered::hasPendingFact, hasPendingLemma, hasPending
hasPendingFact(im) == im.pendingFacts > 0

hasPendingLemma(im) == im.pendingLemmas > 0

hasPending(im) == hasPendingFact(im) \/ hasPendingLemma(im)

\* TheoryInferenceManager::hasSentLemma
hasSentLemma(im) == im.numCurrentLemmas # 0

\* TheoryInferenceManager::reset: the counts of the round start at zero
imReset(im) == [im EXCEPT !.numCurrentLemmas = 0]

\* InferenceManagerBuffered::doPendingFacts
doPendingFacts(im) == [im EXCEPT !.pendingFacts = 0]

\* InferenceManagerBuffered::doPending: after the facts, the lemmas are
\* sent unless a fact raised a conflict; sent of them are accepted; both
\* queues are cleared
doPending(im, conflict, sent) ==
  [pendingFacts |-> 0, pendingLemmas |-> 0,
   numCurrentLemmas |-> im.numCurrentLemmas + (IF conflict THEN 0 ELSE sent)]

min(a, b) == IF a <= b THEN a ELSE b

\* a test of the loop that forgets the lemmas sent in the round
repeatRound_ignoresSent(conflict, sentLemma, hadPending) ==
  ~conflict /\ hadPending

\* the test of the do-while loop of postCheck
repeatRound(conflict, sentLemma, hadPending) ==
  ~conflict /\ ~sentLemma /\ hadPending

\* the assertions that close postCheck
PostCheckAsserts(im) ==
  IF opts.assertions /\ (hasPendingFact(im) \/ hasPendingLemma(im))
  THEN "ASSERTION" ELSE "NONE"

\* TheoryBags::postCheck up to the loop; factConflict: a pending fact
\* raises a conflict when it is asserted
PostCheck(hasEffort, needCheck, factConflict) ==
  /\ BagsAlive /\ bagsPc.at = "idle"
  /\ LET conflict == d_state.conflict \/ (hasPendingFact(d_im) /\ factConflict)
         im == doPendingFacts(d_im)
     IN /\ d_im' = im
        /\ d_state' = [conflict |-> conflict]
        /\ IF ~conflict /\ ~needCheck /\ hasEffort
           THEN /\ bagsPc' = [BagsIdle EXCEPT !.at = "round"]
                /\ bagsCall' = [NoBagsCall("postCheck") EXCEPT !.ranStrategy = TRUE]
           ELSE /\ bagsPc' = BagsIdle
                /\ bagsCall' = [NoBagsCall("postCheck") EXCEPT
                                  !.conflict = conflict,
                                  !.fatal = PostCheckAsserts(im)]

\* the start of a round: d_im.reset() and initialize(); the rounds are
\* counted up to MaxRounds
RoundStart ==
  /\ BagsAlive /\ bagsPc.at = "round"
  /\ d_im' = imReset(d_im)
  /\ d_opMap' \in initialize(d_opMap, d_equalityEngine)
  /\ bagsPc' = [bagsPc EXCEPT !.at = "strategy", !.it = 1,
                              !.rounds = min(MaxRounds, @ + 1)]
  /\ bagsCall' = [NoBagsCall("postCheck") EXCEPT !.ranStrategy = TRUE,
                                                !.rounds = min(MaxRounds, bagsPc.rounds + 1)]
  /\ UNCHANGED d_state

\* what a check of the solver can do: queue facts and lemmas, send a lemma,
\* raise a conflict, and (checkBagMake only) report true
Effects ==
  [facts : 0..1, lemmas : 0..1, sent : 0..1, conflict : BOOLEAN, ret : BOOLEAN]

NoEffect == [facts |-> 0, lemmas |-> 0, sent |-> 0, conflict |-> FALSE, ret |-> FALSE]

\* TheoryBags::runInferStep: only checkBagMake reports, CHECK_INIT does
\* nothing
stepEffects(s) ==
  IF s = "CHECK_INIT" THEN {NoEffect}
  ELSE IF s = "CHECK_BAG_MAKE" THEN Effects
  ELSE {e \in Effects : ~e.ret}

\* variant: a break marker stops the round only on a conflict
StrategyStep_breakOnConflictOnly(e) ==
  /\ BagsAlive /\ bagsPc.at = "strategy" /\ bagsPc.it <= Len(StrategySteps)
  /\ LET curr == StrategySteps[bagsPc.it]
     IN IF curr = "BREAK"
        THEN /\ e = NoEffect
             /\ bagsPc' = IF d_state.conflict
                          THEN [bagsPc EXCEPT !.at = "flush"]
                          ELSE [bagsPc EXCEPT !.it = @ + 1]
             /\ UNCHANGED <<d_im, d_state, bagsCall>>
        ELSE /\ e \in stepEffects(curr)
             /\ d_im' = [pendingFacts |-> min(MaxPending, d_im.pendingFacts + e.facts),
                         pendingLemmas |-> min(MaxPending, d_im.pendingLemmas + e.lemmas),
                         numCurrentLemmas |-> d_im.numCurrentLemmas + e.sent]
             /\ d_state' = [conflict |-> d_state.conflict \/ e.conflict]
             /\ bagsCall' = [bagsCall EXCEPT !.sent = @ + e.sent,
                                             !.steps = Append(@, curr),
                                             !.reported = e.ret]
             /\ bagsPc' = IF e.ret \/ d_state'.conflict
                          THEN [bagsPc EXCEPT !.at = "flush"]
                          ELSE [bagsPc EXCEPT !.it = @ + 1]

\* TheoryBags::runStrategy: one iteration of the loop over the steps
StrategyStep(e) ==
  /\ BagsAlive /\ bagsPc.at = "strategy" /\ bagsPc.it <= Len(StrategySteps)
  /\ LET curr == StrategySteps[bagsPc.it]
     IN IF curr = "BREAK"
        THEN /\ e = NoEffect
             /\ bagsPc' = IF d_state.conflict \/ hasPending(d_im)
                          THEN [bagsPc EXCEPT !.at = "flush"]
                          ELSE [bagsPc EXCEPT !.it = @ + 1]
             /\ UNCHANGED <<d_im, d_state, bagsCall>>
        ELSE /\ e \in stepEffects(curr)
             /\ d_im' = [pendingFacts |-> min(MaxPending, d_im.pendingFacts + e.facts),
                         pendingLemmas |-> min(MaxPending, d_im.pendingLemmas + e.lemmas),
                         numCurrentLemmas |-> d_im.numCurrentLemmas + e.sent]
             /\ d_state' = [conflict |-> d_state.conflict \/ e.conflict]
             /\ bagsCall' = [bagsCall EXCEPT !.sent = @ + e.sent,
                                             !.steps = Append(@, curr),
                                             !.reported = e.ret]
             /\ bagsPc' = IF e.ret \/ d_state'.conflict
                          THEN [bagsPc EXCEPT !.at = "flush"]
                          ELSE [bagsPc EXCEPT !.it = @ + 1]

\* the end of runStrategy when no step broke the loop
StrategyEnd ==
  /\ BagsAlive /\ bagsPc.at = "strategy" /\ bagsPc.it > Len(StrategySteps)
  /\ bagsPc' = [bagsPc EXCEPT !.at = "flush"]
  /\ UNCHANGED <<d_im, d_state, bagsCall>>

\* a flush that reads the flags of the round but leaves the queues as
\* they are
Flush_withoutDoPending(factConflict, sent) ==
  /\ BagsAlive /\ bagsPc.at = "flush"
  /\ sent <= d_im.pendingLemmas
  /\ bagsPc' = [bagsPc EXCEPT !.at = "test",
                              !.hadPending = hasPending(d_im),
                              !.sentLemma = hasSentLemma(d_im)]
  /\ bagsCall' = [bagsCall EXCEPT
                    !.pendingFacts = d_im.pendingFacts,
                    !.pendingLemmas = d_im.pendingLemmas,
                    !.conflict = d_state.conflict]
  /\ UNCHANGED <<d_im, d_state>>

\* postCheck after runStrategy: hadPending, d_im.doPending(), sentLemma;
\* factConflict: a pending fact raises a conflict; sent: the pending lemmas
\* that are accepted
Flush(factConflict, sent) ==
  /\ BagsAlive /\ bagsPc.at = "flush"
  /\ sent <= d_im.pendingLemmas
  /\ LET conflict == d_state.conflict \/ (hasPendingFact(d_im) /\ factConflict)
         im == doPending(d_im, conflict, sent)
     IN /\ d_im' = im
        /\ d_state' = [conflict |-> conflict]
        /\ bagsPc' = [bagsPc EXCEPT !.at = "test",
                                    !.hadPending = hasPending(d_im),
                                    !.sentLemma = hasSentLemma(im)]
        /\ bagsCall' = [bagsCall EXCEPT
                          !.pendingFacts = d_im.pendingFacts,
                          !.pendingLemmas = d_im.pendingLemmas,
                          !.sent = @ + (IF conflict THEN 0 ELSE sent),
                          !.conflict = conflict]

\* the test of the loop: another round, or the end of postCheck
LoopTest ==
  /\ BagsAlive /\ bagsPc.at = "test"
  /\ IF repeatRound(d_state.conflict, bagsPc.sentLemma, bagsPc.hadPending)
     THEN /\ bagsPc' = [bagsPc EXCEPT !.at = "round"]
          /\ bagsCall' = [bagsCall EXCEPT !.tested = TRUE, !.repeated = TRUE]
     ELSE /\ bagsPc' = BagsIdle
          /\ bagsCall' = [bagsCall EXCEPT !.tested = TRUE, !.repeated = FALSE,
                                          !.fatal = PostCheckAsserts(d_im)]
  /\ UNCHANGED <<d_im, d_state>>

\* the SAT solver backtracks out of a conflict between two checks
Backtrack ==
  /\ BagsAlive /\ bagsPc.at = "idle" /\ d_state.conflict
  /\ d_state' = [conflict |-> FALSE]
  /\ bagsCall' = NoBagsCall("backtrack")
  /\ UNCHANGED <<d_im, bagsPc>>

(***************************************************************************)
(* The operations of the theory of bags on terms: preRegisterTerm, the     *)
(* facts of the equality engine, a full check that infers nothing, and     *)
(* computeCareGraph.                                                       *)
(***************************************************************************)
\* preRegisterTerm that adds the term before it looks at its kind
preRegisterTerm_addsFirst(env, ee, n) ==
  IF ~env.bags
  THEN [ee |-> ee, threw |-> "LogicException"]
  ELSE IF n.kind = "EQUAL"
  THEN [ee |-> [ee EXCEPT !.triggers = @ \cup {n}], threw |-> "NONE"]
  ELSE IF n.kind = "BAG_PARTITION"
  THEN [ee |-> [ee EXCEPT !.terms = @ \cup {n}], threw |-> "LogicException"]
  ELSE [ee |-> [ee EXCEPT !.terms = @ \cup {n}], threw |-> "NONE"]

\* TheoryBags::preRegisterTerm: the equality engine after the call and the
\* exception thrown
preRegisterTerm(env, ee, n) ==
  IF ~env.bags
  THEN [ee |-> ee, threw |-> "LogicException"]
  ELSE IF n.kind = "EQUAL"
  THEN [ee |-> [ee EXCEPT !.triggers = @ \cup {n}], threw |-> "NONE"]
  ELSE IF n.kind = "BAG_MAP"
  THEN [ee |-> [ee EXCEPT !.injective = @ \cup {n.args[1]},
                          !.terms = @ \cup {n}], threw |-> "NONE"]
  ELSE IF n.kind = "BAG_PARTITION"
  THEN [ee |-> ee, threw |-> "LogicException"]
  ELSE [ee |-> [ee EXCEPT !.terms = @ \cup {n}], threw |-> "NONE"]

PreRegisterTerm(n) ==
  /\ BagsAlive /\ bagsPc.at = "idle"
  /\ LET r == preRegisterTerm(bagsEnv, d_equalityEngine, n)
     IN /\ d_equalityEngine' = r.ee
        /\ bagsTermCall' = [NoTermCall("preRegisterTerm") EXCEPT
                              !.args = <<n>>, !.threw = r.threw,
                              !.before = <<d_equalityEngine>>]
  /\ UNCHANGED <<bagsEnv, d_opMap, d_careGraph, d_im, d_state, bagsPc, bagsCall>>

\* a fact of the equality engine: the two elements, or the two bags, are
\* merged, or the valuation reports them disequal
AssertFact(onElems, polarity) ==
  /\ BagsAlive /\ bagsPc.at = "idle"
  /\ IF onElems
     THEN /\ ~d_equalityEngine.eqElems /\ ~d_equalityEngine.diseqElems
          /\ d_equalityEngine' =
               IF polarity THEN [d_equalityEngine EXCEPT !.eqElems = TRUE]
               ELSE [d_equalityEngine EXCEPT !.diseqElems = TRUE]
     ELSE /\ ~d_equalityEngine.eqBags /\ ~d_equalityEngine.diseqBags
          /\ d_equalityEngine' =
               IF polarity THEN [d_equalityEngine EXCEPT !.eqBags = TRUE]
               ELSE [d_equalityEngine EXCEPT !.diseqBags = TRUE]
  /\ bagsTermCall' = NoTermCall("assertFact")
  /\ UNCHANGED <<bagsEnv, d_opMap, d_careGraph, d_im, d_state, bagsPc, bagsCall>>

\* a fact of the equality engine: two applications of the same kind that it
\* holds are merged; one such fact is followed
AssertEqualTerms(a, b) ==
  /\ BagsAlive /\ bagsPc.at = "idle"
  /\ a \in d_equalityEngine.terms /\ b \in d_equalityEngine.terms
  /\ a # b /\ a.kind = b.kind /\ a.kind \in {"BAG_COUNT", "BAG_MAKE"}
  /\ d_equalityEngine.merged = {}
  /\ d_equalityEngine' = [d_equalityEngine EXCEPT !.merged = {{a, b}}]
  /\ bagsTermCall' = NoTermCall("assertFact")
  /\ UNCHANGED <<bagsEnv, d_opMap, d_careGraph, d_im, d_state, bagsPc, bagsCall>>

\* context push: the equality engine is context-dependent, its state is
\* saved for the matching pop
ContextPush ==
  /\ BagsAlive /\ bagsPc.at = "idle"
  /\ Len(d_equalityEngine.saved) < MaxLevels
  /\ d_equalityEngine' =
       [d_equalityEngine EXCEPT
          !.saved = Append(@, [d_equalityEngine EXCEPT !.saved = <<>>])]
  /\ bagsTermCall' = NoTermCall("push")
  /\ UNCHANGED <<bagsEnv, d_opMap, d_careGraph, d_im, d_state, bagsPc, bagsCall>>

\* context pop (backtracking): the equality engine is as it was at the
\* matching push; d_opMap is an ordinary member and keeps its content
ContextPop ==
  /\ BagsAlive /\ bagsPc.at = "idle"
  /\ Len(d_equalityEngine.saved) > 0
  /\ LET n == Len(d_equalityEngine.saved)
     IN d_equalityEngine' =
          [d_equalityEngine.saved[n] EXCEPT
             !.saved = SubSeq(d_equalityEngine.saved, 1, n - 1)]
  /\ bagsTermCall' = NoTermCall("pop")
  /\ UNCHANGED <<bagsEnv, d_opMap, d_careGraph, d_im, d_state, bagsPc, bagsCall>>

\* a full-effort postCheck whose checks infer nothing: one round, in which
\* initialize() collects the terms again
PostCheckNoInference ==
  /\ BagsAlive /\ bagsPc.at = "idle" /\ ~d_state.conflict
  /\ d_opMap' \in initialize(d_opMap, d_equalityEngine)
  /\ d_im' = doPending(imReset(doPendingFacts(d_im)), FALSE, 0)
  /\ bagsCall' = [NoBagsCall("postCheck") EXCEPT
                    !.ranStrategy = TRUE, !.rounds = 1, !.tested = TRUE,
                    !.steps = SelectSeq(StrategySteps, LAMBDA s : s # "BREAK")]
  /\ bagsTermCall' = NoTermCall("postCheck")
  /\ UNCHANGED <<bagsEnv, d_equalityEngine, d_careGraph, d_state, bagsPc>>

\* TheoryBags::isCareArg; a is the index of the argument, from 1
isCareArg(env, n, a) ==
  \/ isTriggerTerm(env, n.args[a])
  \/ /\ n.kind \in {"BAG_COUNT", "BAG_MAKE"} /\ a = 1
     /\ isBag(env, n.args[1])

\* the representatives of the arguments of n
childrenReps(ee, n) ==
  [j \in 1..Len(n.args) |-> getRepresentative(ee, n.args[j])]

\* the terms of kind k that computeCareGraph adds to the index, in order:
\* a term with a care argument, unless an earlier one has the same
\* representatives (TNodeTrie::addTerm keeps the first)
indexed(env, ee, opMap, k) ==
  LET ts == SelectSeq(opMap, LAMBDA n : n.kind = k)
      care(n) == \E j \in 1..Len(n.args) : isCareArg(env, n, j)
  IN {i \in 1..Len(ts) :
        /\ care(ts[i])
        /\ \A j \in 1..(i - 1) :
             care(ts[j]) => childrenReps(ee, ts[j]) # childrenReps(ee, ts[i])}

\* nodeTriePathPairProcess: the pairs of indexed terms handed to
\* processCarePairArgs; a pair is left out when two of its arguments are
\* care-disequal
carePairs(env, ee, opMap, k) ==
  LET ts == SelectSeq(opMap, LAMBDA n : n.kind = k)
      ix == indexed(env, ee, opMap, k)
  IN {<<ts[q[1]], ts[q[2]]>> : q \in {r \in ix \X ix : r[1] < r[2]}} \cap
       {p \in Range(opMap) \X Range(opMap) :
          \A a \in 1..Len(p[1].args) :
            LET x == getRepresentative(ee, p[1].args[a])
                y == getRepresentative(ee, p[2].args[a])
            IN x = y \/ ~areCareDisequal(env, ee, x, y)}

\* the case split on x and y
splitLemma(x, y) == mkNode("OR", <<Eq(x, y), notNode(Eq(x, y))>>)

\* a split on any pair of arguments that are not known equal
processCarePairArgs_splitsEveryType(env, ee, a, b) ==
  IF a.kind # "BAG_COUNT" /\ areEqual(ee, a, b) THEN {}
  ELSE {[pair |-> <<a, b>>, arg |-> i,
         lemma |-> splitLemma(a.args[i], b.args[i])] :
          i \in {h \in 1..Len(a.args) :
                   /\ ~areEqual(ee, a.args[h], b.args[h])
                   /\ isCareArg(env, a, h) /\ isCareArg(env, b, h)}}

\* variant: applications known equal are processed like the others
processCarePairArgs_noEarlyReturn(env, ee, a, b) ==
  {[pair |-> <<a, b>>, arg |-> i,
    lemma |-> splitLemma(a.args[i], b.args[i])] :
     i \in {h \in 1..Len(a.args) :
              /\ ~areEqual(ee, a.args[h], b.args[h])
              /\ isCareArg(env, a, h) /\ isCareArg(env, b, h)
              /\ isBag(env, a.args[h])}}

\* TheoryBags::processCarePairArgs: the lemmas sent for the pair a, b, each
\* with the argument it splits on
processCarePairArgs(env, ee, a, b) ==
  IF a.kind # "BAG_COUNT" /\ areEqual(ee, a, b) THEN {}
  ELSE {[pair |-> <<a, b>>, arg |-> i,
         lemma |-> splitLemma(a.args[i], b.args[i])] :
          i \in {h \in 1..Len(a.args) :
                   /\ ~areEqual(ee, a.args[h], b.args[h])
                   /\ isCareArg(env, a, h) /\ isCareArg(env, b, h)
                   /\ isBag(env, a.args[h])}}

\* Theory::addCarePairArgs: the arguments of a and b that are shared terms
\* not known equal
addCarePairArgs(env, ee, a, b) ==
  {<<a.args[i], b.args[i]>> :
     i \in {h \in 1..Len(a.args) :
              /\ ~areEqual(ee, a.args[h], b.args[h])
              /\ isTriggerTerm(env, a.args[h]) /\ isTriggerTerm(env, b.args[h])}}

\* the terms of the index that computeCareGraph goes through and the
\* equality engine does not hold: Assert(d_equalityEngine->hasTerm(n))
termsNotInEngine(ee, opMap) ==
  {n \in Range(opMap) : n.kind \in {"BAG_MAKE", "BAG_COUNT"} /\ n \notin ee.terms}

\* TheoryBags::computeCareGraph, into the care graph of this call
ComputeCareGraph ==
  /\ BagsAlive /\ bagsPc.at = "idle"
  /\ IF opts.assertions /\ termsNotInEngine(d_equalityEngine, d_opMap) # {}
     THEN /\ bagsCall' = [bagsCall EXCEPT !.fatal = "ASSERTION"]
          /\ bagsTermCall' = [NoTermCall("computeCareGraph") EXCEPT
                                !.threw = "ASSERTION"]
          /\ UNCHANGED <<d_careGraph, d_im>>
     ELSE LET pairs == carePairs(bagsEnv, d_equalityEngine, d_opMap, "BAG_COUNT")
                         \cup carePairs(bagsEnv, d_equalityEngine, d_opMap, "BAG_MAKE")
              passed == {p \in pairs : ~(p[1].kind # "BAG_COUNT"
                                          /\ areEqual(d_equalityEngine, p[1], p[2]))}
              sent == UNION {processCarePairArgs(bagsEnv, d_equalityEngine, p[1], p[2]) :
                               p \in pairs}
          IN /\ d_careGraph' =
                  UNION {addCarePairArgs(bagsEnv, d_equalityEngine, p[1], p[2]) :
                           p \in passed}
             /\ d_im' = [d_im EXCEPT !.numCurrentLemmas =
                                       @ + Cardinality({l.lemma : l \in sent})]
             /\ bagsTermCall' = [NoTermCall("computeCareGraph") EXCEPT
                                   !.processed = pairs, !.lemmas = sent]
             /\ UNCHANGED bagsCall
  /\ UNCHANGED <<bagsEnv, d_equalityEngine, d_opMap, d_state, bagsPc>>

(***************************************************************************)
(* collectModelValues of the theory of bags.  The term set, the pairs of   *)
(* element and count skolem that the solver state holds for a bag, and the *)
(* representatives of the skolems in the model are inputs of the call.     *)
(***************************************************************************)
\* the order in which the term set is gone through
TermSetOrder ==
  <<Leaf("VARIABLE", "A"), Leaf("VARIABLE", "B"), Leaf("VARIABLE", "e1"),
    Leaf("VARIABLE", "e2"), mkNode("BAG_MAKE", <<Leaf("VARIABLE", "e1"), Two>>)>>

\* the skolem that stands for the count of e in r
countSkolem(e, r) == mkNode("SKOLEM", <<e, r>>)

\* SolverState::getElementCountPairs, from the elements registered for r
getElementCountPairs(elems, r) ==
  IF r \in DOMAIN elems
  THEN [i \in 1..Len(elems[r]) |-> <<elems[r][i], countSkolem(elems[r][i], r)>>]
  ELSE <<>>

\* Theory::isLeafOf(n, THEORY_BAGS)
isLeafOf(n) == n.kind = "VARIABLE"

\* BagsUtils::constructBagFromElements and the rewriter: the bag that holds
\* each key as often as its value says, keys with no occurrence left out
constructBagFromElements(elementReps) ==
  [k \in {h \in DOMAIN elementReps : elementReps[h] > 0} |-> elementReps[k]]

\* collectModelValues with the test of the term set the wrong way round
collectModelValues_invertedFilter(env, ee, termSet, elems, mrep) ==
  LET ts == SelectSeq(TermSetOrder, LAMBDA n : n \in termSet)
      value(r) ==
        LET elements == SelectSeq(getElementCountPairs(elems, r),
                                  LAMBDA p : p[1] \notin termSet)
            key(i) == getRepresentative(ee, elements[i][1])
            last(k) == CHOOSE i \in 1..Len(elements) :
                         /\ key(i) = k
                         /\ \A j \in (i + 1)..Len(elements) : key(j) # k
        IN constructBagFromElements(
             [k \in {key(i) : i \in 1..Len(elements)} |->
                mrep[<<elements[last(k)][2].args[1], elements[last(k)][2].args[2]>>]])
      step[i \in 0..Len(ts)] ==
        IF i = 0 THEN [processedBags |-> {}, asserted |-> <<>>]
        ELSE LET s == step[i - 1]
                 n == ts[i]
                 r == getRepresentative(ee, n)
             IN IF ~isBag(env, n) \/ ~isLeafOf(n) \/ r \in s.processedBags
                THEN s
                ELSE [processedBags |-> s.processedBags \cup {r},
                      asserted |-> Append(s.asserted,
                                          [term |-> n, value |-> value(r)])]
  IN step[Len(ts)].asserted

\* TheoryBags::collectModelValues: the equalities asserted to the model,
\* one bag value for each class of bag leaves of the term set
collectModelValues(env, ee, termSet, elems, mrep) ==
  LET ts == SelectSeq(TermSetOrder, LAMBDA n : n \in termSet)
      value(r) ==
        LET elements == SelectSeq(getElementCountPairs(elems, r),
                                  LAMBDA p : p[1] \in termSet)
            key(i) == getRepresentative(ee, elements[i][1])
            last(k) == CHOOSE i \in 1..Len(elements) :
                         /\ key(i) = k
                         /\ \A j \in (i + 1)..Len(elements) : key(j) # k
        IN constructBagFromElements(
             [k \in {key(i) : i \in 1..Len(elements)} |->
                mrep[<<elements[last(k)][2].args[1], elements[last(k)][2].args[2]>>]])
      step[i \in 0..Len(ts)] ==
        IF i = 0 THEN [processedBags |-> {}, asserted |-> <<>>]
        ELSE LET s == step[i - 1]
                 n == ts[i]
                 r == getRepresentative(ee, n)
             IN IF ~isBag(env, n) \/ ~isLeafOf(n) \/ r \in s.processedBags
                THEN s
                ELSE [processedBags |-> s.processedBags \cup {r},
                      asserted |-> Append(s.asserted,
                                          [term |-> n, value |-> value(r)])]
  IN step[Len(ts)].asserted

\* the values a count skolem can have in the model
ModelCounts == {0, 2}

\* the element lists a bag can have: no element twice
ElemLists == UNION {Orders(S) : S \in SUBSET ElemTerms}

\* a call of collectModelValues in a satisfiable state: the skolems of
\* counts that the equality engine knows equal have one value
CollectModelValues(termSet, elems, mrep) ==
  /\ BagsAlive /\ bagsPc.at = "idle"
  /\ \A e1, e2 \in ElemTerms, b1, b2 \in BagTerms :
       (areEqual(d_equalityEngine, e1, e2) /\ areEqual(d_equalityEngine, b1, b2))
         => mrep[<<e1, b1>>] = mrep[<<e2, b2>>]
  /\ bagsTermCall' = [NoTermCall("collectModelValues") EXCEPT
                        !.termSet = termSet, !.elems = elems, !.mrep = mrep,
                        !.asserted = collectModelValues(bagsEnv, d_equalityEngine,
                                                        termSet, elems, mrep)]
  /\ UNCHANGED <<bagsEnv, d_equalityEngine, d_opMap, d_careGraph, d_im, d_state,
                 bagsPc, bagsCall>>

\* the theory of bags with no term registered
NoBagsTerms ==
  BagsTermsInit({e \in BagsEnvs : e.bags /\ ~e.elemIsBag /\ ~e.sharedElems
                                           /\ ~e.sharedBags})

(***************************************************************************)
(* Specifications.  The operations are the same in each; a specification   *)
(* fixes the configurations the solver is started with and the inputs the  *)
(* operations are called with.                                             *)
(***************************************************************************)
Results == {"SAT", "UNSAT", "UNKNOWN"}

\* the model manager of a solver that is not asked for a model
ModelManagerUnused ==
  ModelManagerInit({[enabled |-> {THEORY_BUILTIN, THEORY_BOOL},
                     active |-> {THEORY_BUILTIN, THEORY_BOOL},
                     quantified |-> TRUE, produceModels |-> FALSE]})

\* an operation of the SyGuS solver leaves the model manager alone
SygusFrame == UNCHANGED <<mmVars, bagsVars, bagsTermVars, eeVars>>

\* the number of tracked terms stays within m after k more are added
TermsWithin(m, k) == Len(d_sygusConstraints) + Len(d_sygusAssumps) + k <= m

\* the fresh variables for an invariant of k arguments are still available
FreshWithin(k) == nextFresh + k <= MaxFresh

\* The context machine: every operation together with push and pop, in
\* incremental and non-incremental mode, without solution verification.
ContextOptions ==
  {o \in OptionSets : ~o.sygusStream /\ ~o.checkSynthSol /\ ~o.cegisSampleTrust}

Init ==
  /\ SygusInit(ContextOptions) /\ ModelManagerUnused
  /\ TheoryBagsInit /\ NoBagsTerms /\ CentralInit

Next ==
  \/ DeclareSynthFun(FunF) /\ SygusFrame
  \/ \E isAssume \in BOOLEAN :
       TermsWithin(MaxCtxTerms, 1) /\ AssertSygusConstraint(cG, isAssume)
         /\ SygusFrame
  \/ Len(ctx) < MaxDepth /\ Push /\ SygusFrame
  \/ Pop /\ SygusFrame
  \/ \E isNext \in BOOLEAN, a \in 0..NumAddrs, raw \in {"UNKNOWN", "NONE"} :
       CheckSynth(isNext, a, raw, TRUE, TRUE, "NONE") /\ SygusFrame

Spec == Init /\ [][Next]_vars

\* The interpretation and verification of results: every configuration,
\* every raw result, every outcome of the extraction and of the verification.
InitResult ==
  /\ SygusInit(OptionSets) /\ ModelManagerUnused
  /\ TheoryBagsInit /\ NoBagsTerms /\ CentralInit

NextResult ==
  \/ DeclareSynthFun(FunF) /\ SygusFrame
  \/ TermsWithin(MaxCtxTerms, 1) /\ AssertSygusConstraint(cG, FALSE) /\ SygusFrame
  \/ \E isNext \in BOOLEAN, a \in 0..NumAddrs, raw \in Results \cup {"NONE"},
        qeRet \in BOOLEAN, qeAll \in BOOLEAN, vres \in Results \cup {"NONE"} :
       CheckSynth(isNext, a, raw, qeRet, qeAll, vres) /\ SygusFrame

SpecResult == InitResult /\ [][NextResult]_vars

\* The construction of the conjecture: the main-engine configurations, with
\* and without triviality inference, and structured constraints.
ConjectureOptions ==
  {o \in OptionSets : ~o.incrementalSolving /\ ~o.checkSynthSol
                      /\ ~o.cegisSampleTrust /\ ~o.assertions}

InitConjecture ==
  /\ SygusInit(ConjectureOptions) /\ ModelManagerUnused
  /\ TheoryBagsInit /\ NoBagsTerms /\ CentralInit

NextConjecture ==
  \/ DeclareSygusVar(VarX) /\ SygusFrame
  \/ \E fn \in SynthFuns : DeclareSynthFun(fn) /\ SygusFrame
  \/ \E n \in {cG, cNest}, isAssume \in BOOLEAN :
       TermsWithin(MaxTerms, Len(miniscope(n))) /\ AssertSygusConstraint(n, isAssume)
         /\ SygusFrame
  \/ TermsWithin(MaxTerms, 1) /\ FreshWithin(Len(getType(FunInv).args))
       /\ AssertSygusInvConstraint(FunInv, PreP, TransP, PostP) /\ SygusFrame
  \/ \E isNext \in BOOLEAN, qeRet \in BOOLEAN :
       CheckSynth(isNext, 0, "UNKNOWN", qeRet, qeRet, "NONE") /\ SygusFrame

SpecConjecture == InitConjecture /\ [][NextConjecture]_vars

\* The constraint and assumption lists: plain, nested and quantified
\* constraints and the constraints of invariant problems, asserted in any
\* order.
InitConstraints ==
  /\ SygusInit({o \in ConjectureOptions : ~o.sygusStream}) /\ ModelManagerUnused
  /\ TheoryBagsInit /\ NoBagsTerms /\ CentralInit

NextConstraints ==
  \/ \E n \in {cG, cNest, cAllAnd}, isAssume \in BOOLEAN :
       TermsWithin(MaxTerms + 1, Len(miniscope(n)))
         /\ AssertSygusConstraint(n, isAssume) /\ SygusFrame
  \/ TermsWithin(MaxTerms + 1, 1) /\ FreshWithin(Len(getType(FunInv).args))
       /\ AssertSygusInvConstraint(FunInv, PreP, TransP, PostP) /\ SygusFrame

SpecConstraints == InitConstraints /\ [][NextConstraints]_vars

\* The model manager: every logic, with and without model production, every
\* outcome of the theories, of the SAT engine and of the model builder.
SygusUnused ==
  SygusInit({o \in OptionSets : ~o.incrementalSolving /\ ~o.sygusStream
                                 /\ ~o.checkSynthSol /\ ~o.cegisSampleTrust
                                 /\ ~o.assertions})

\* an operation of the model manager leaves the SyGuS solver alone
ModelFrame == UNCHANGED <<sygusVars, bagsVars, bagsTermVars, eeVars>>

InitModel ==
  /\ ModelManagerInit(ModelEnvs) /\ SygusUnused
  /\ TheoryBagsInit /\ NoBagsTerms /\ CentralInit

NextModel ==
  \/ \E qeBuilder \in BOOLEAN : FinishInit(qeBuilder) /\ ModelFrame
  \/ ResetModel /\ ModelFrame
  \/ BuildModel /\ ModelFrame
  \/ \E ok \in BOOLEAN : CollectModelInfo(ok) /\ ModelFrame
  \/ \E sat \in [BoolVars -> SatValues], failAt \in 0..NumBoolVars :
       CollectModelBooleanVariables(sat, failAt) /\ ModelFrame
  \/ \E ok \in BOOLEAN : FinishBuildModel(ok) /\ ModelFrame
  \/ BuildModelReturn /\ ModelFrame
  \/ \E incomplete \in BOOLEAN :
       mmRound.builder < MaxPostProcess /\ PostProcessModel(incomplete) /\ ModelFrame

SpecModel == InitModel /\ [][NextModel]_vars

\* The check loop of the theory of bags: every effort, every outcome of the
\* solver's checks and of the flush, with and without assertions.
BagsOptions ==
  {o \in OptionSets : ~o.incrementalSolving /\ ~o.sygusStream
                       /\ ~o.checkSynthSol /\ ~o.cegisSampleTrust}

\* an operation of the theory of bags leaves the other components alone
BagsFrame == UNCHANGED <<sygusVars, mmVars, bagsTermVars, eeVars>>

\* the start of a round collects the terms of the equality engine again
RoundFrame ==
  UNCHANGED <<sygusVars, mmVars, bagsEnv, d_equalityEngine, d_careGraph,
              bagsTermCall, eeVars>>

InitBags ==
  /\ TheoryBagsInit /\ SygusInit(BagsOptions) /\ ModelManagerUnused
  /\ NoBagsTerms /\ CentralInit

NextBags ==
  \/ \E hasEffort \in BOOLEAN, needCheck \in BOOLEAN, factConflict \in BOOLEAN :
       PostCheck(hasEffort, needCheck, factConflict) /\ BagsFrame
  \/ bagsPc.rounds < MaxRounds /\ RoundStart /\ RoundFrame
  \/ \E e \in Effects : StrategyStep(e) /\ BagsFrame
  \/ StrategyEnd /\ BagsFrame
  \/ \E factConflict \in BOOLEAN, sent \in 0..MaxPending :
       Flush(factConflict, sent) /\ BagsFrame
  \/ LoopTest /\ BagsFrame
  \/ Backtrack /\ BagsFrame

SpecBags == InitBags /\ [][NextBags]_vars

\* The same loop with no limit on the number of rounds: postCheck runs on
\* one thread that always takes its next step.
NextBagsLive ==
  \/ \E hasEffort \in BOOLEAN, needCheck \in BOOLEAN, factConflict \in BOOLEAN :
       PostCheck(hasEffort, needCheck, factConflict) /\ BagsFrame
  \/ RoundStart /\ RoundFrame
  \/ \E e \in Effects : StrategyStep(e) /\ BagsFrame
  \/ StrategyEnd /\ BagsFrame
  \/ \E factConflict \in BOOLEAN, sent \in 0..MaxPending :
       Flush(factConflict, sent) /\ BagsFrame
  \/ LoopTest /\ BagsFrame
  \/ Backtrack /\ BagsFrame

SpecBagsLive == InitBags /\ [][NextBagsLive]_vars /\ WF_vars(NextBagsLive)

\* The terms of the theory of bags: every configuration, terms registered
\* one by one, facts of the equality engine, full checks, and the care
\* graph that the combination of theories asks for after such a check.
TermsFrame == UNCHANGED <<sygusVars, mmVars, eeVars>>

InitBagsTerms ==
  /\ BagsTermsInit(BagsEnvs) /\ TheoryBagsInit /\ ModelManagerUnused /\ CentralInit
  /\ SygusInit({o \in BagsOptions : o.assertions})

NextBagsTerms ==
  \/ \E n \in BagInputTerms :
       /\ Cardinality(d_equalityEngine.terms \cup {n}) <= MaxEeTerms
       /\ PreRegisterTerm(n) /\ TermsFrame
  \/ \E onElems \in BOOLEAN, polarity \in BOOLEAN :
       AssertFact(onElems, polarity) /\ TermsFrame
  \/ PostCheckNoInference /\ TermsFrame
  \/ bagsTermCall.op = "postCheck" /\ ComputeCareGraph /\ TermsFrame

SpecBagsTerms == InitBagsTerms /\ [][NextBagsTerms]_vars

\* The terms of the theory of bags under backtracking: terms are registered
\* at any context level, the context is pushed and popped, and a full check
\* or the care graph may be asked for at any point between; the care graph
\* is asked for only while no lemma was sent since the last check.
InitBagsContext ==
  /\ BagsTermsInit({e \in BagsEnvs : e.bags /\ ~e.sharedElems /\ ~e.sharedBags})
  /\ TheoryBagsInit /\ ModelManagerUnused /\ CentralInit
  /\ SygusInit({o \in BagsOptions : o.assertions})

NextBagsContext ==
  \/ \E n \in CountTerms \cup MakeTerms :
       /\ Cardinality(d_equalityEngine.terms \cup {n}) <= MaxEeTerms
       /\ PreRegisterTerm(n) /\ TermsFrame
  \/ ContextPush /\ TermsFrame
  \/ ContextPop /\ TermsFrame
  \/ PostCheckNoInference /\ TermsFrame
  \/ ~hasSentLemma(d_im) /\ ComputeCareGraph /\ TermsFrame

SpecBagsContext == InitBagsContext /\ [][NextBagsContext]_vars

\* The care graph of the theory of bags over count and bag-construction
\* terms, with applications that the equality engine was told are equal.
InitBagsCare ==
  /\ BagsTermsInit({e \in BagsEnvs : e.bags}) /\ TheoryBagsInit
  /\ ModelManagerUnused /\ CentralInit
  /\ SygusInit({o \in BagsOptions : o.assertions})

NextBagsCare ==
  \/ \E n \in CountTerms \cup MakeTerms :
       /\ Cardinality(d_equalityEngine.terms \cup {n}) <= MaxEeTerms
       /\ PreRegisterTerm(n) /\ TermsFrame
  \/ \E onElems \in BOOLEAN, polarity \in BOOLEAN :
       AssertFact(onElems, polarity) /\ TermsFrame
  \/ \E a \in CountTerms \cup MakeTerms, b \in CountTerms \cup MakeTerms :
       AssertEqualTerms(a, b) /\ TermsFrame
  \/ PostCheckNoInference /\ TermsFrame
  \/ bagsTermCall.op = "postCheck" /\ ComputeCareGraph /\ TermsFrame

SpecBagsCare == InitBagsCare /\ [][NextBagsCare]_vars


\* The model values of the theory of bags: the facts of the equality
\* engine, then one collectModelValues for every term set, every list of
\* elements of the two bags and every value of the count skolems.
InitBagsModel ==
  /\ BagsTermsInit({e \in BagsEnvs : e.bags /\ ~e.sharedElems /\ ~e.sharedBags})
  /\ TheoryBagsInit /\ ModelManagerUnused /\ CentralInit
  /\ SygusInit({o \in BagsOptions : o.assertions})

NextBagsModel ==
  \/ \E onElems \in BOOLEAN, polarity \in BOOLEAN :
       AssertFact(onElems, polarity) /\ TermsFrame
  \/ /\ bagsTermCall.op # "collectModelValues"
     /\ \E termSet \in SUBSET Range(TermSetOrder),
           elems \in [BagTerms -> ElemLists],
           mrep \in [ElemTerms \X BagTerms -> ModelCounts] :
          CollectModelValues(termSet, elems, mrep) /\ TermsFrame

SpecBagsModel == InitBagsModel /\ [][NextBagsModel]_vars

\* The notify class of the central equality engine: every way of setting
\* up the theories, then every event.
CentralFrame == UNCHANGED <<sygusVars, mmVars, bagsVars, bagsTermVars>>

InitCentral ==
  /\ CentralInit /\ TheoryBagsInit /\ NoBagsTerms /\ ModelManagerUnused
  /\ SygusInit({o \in BagsOptions : o.assertions})

NextCentral ==
  \/ \E needs \in SUBSET EeEvents : InitializeTheory(needs) /\ CentralFrame
  \/ \E event \in EeEvents : EqNotify(event) /\ CentralFrame

SpecCentral == InitCentral /\ [][NextCentral]_vars

(***************************************************************************)
(* Claims.                                                                 *)
(***************************************************************************)
\* the operations that set the stale flag when they complete
StaleSetters == {"declareSynthFun", "assertSygusConstraint", "assertSygusInvConstraint"}

\* C1 (as stated): every completed declare/assert operation, declareSygusVar
\* included, leaves the conjecture stale flag set.
C1_EveryDeclareSetsStale ==
  (ret.op \in StaleSetters \cup {"declareSygusVar"} /\ ret.threw = "NONE")
    => d_sygusConjectureStale

\* C1 (amended): declareSynthFun, assertSygusConstraint and
\* assertSygusInvConstraint set the stale flag when they return normally,
\* declareSygusVar and a declareSynthFun that throws leave the flag as it
\* was, and a checkSynth entered with
\* the flag set, checkSynth(isNext=true) included, rebuilds the conjecture
\* from the lists in scope.
C1_StaleForcesRebuild ==
  [][/\ (ret'.op \in StaleSetters /\ ret'.threw = "NONE") => d_sygusConjectureStale'
     /\ ret'.op = "declareSygusVar" => d_sygusConjectureStale' = d_sygusConjectureStale
     /\ (ret'.op = "declareSynthFun" /\ ret'.threw # "NONE")
          => d_sygusConjectureStale' = d_sygusConjectureStale
     /\ (ret'.op = "checkSynth" /\ d_sygusConjectureStale)
          => (ret'.rebuilt /\ d_conj' = CurrentConjecture)]_vars

\* C1 witness: a checkSynth(isNext=true) that follows a declare/assert
\* operation, found a cached conjecture and rebuilt it.
C1_Witness ==
  /\ ret.op = "checkSynth" /\ ret.isNext /\ ret.rebuilt
  /\ ret.prevOp \in StaleSetters /\ ret.hadConj /\ ret.staleOnEntry

\* the result table of checkSynth, written out
ResultTable ==
  /\ (ret.sr = "SOLUTION") <=> ret.solFound
  /\ (ret.sr = "NO_SOLUTION") <=> (~ret.solFound /\ ret.raw = "UNSAT")
  /\ (ret.sr = "UNKNOWN") <=> (~ret.solFound /\ ret.raw # "UNSAT")

\* C2: a checkSynth call that returns, returns SOLUTION iff
\* getSynthSolutions returned true, NO_SOLUTION iff no solution was extracted
\* and the raw status is UNSAT, and UNKNOWN otherwise; a call cut short by a
\* fatal error returns no result, and the fatal errors of the solution check
\* occur only after getSynthSolutions returned true with checkSynthSol set.
C2_ResultWhenReturning ==
  ret.op = "checkSynth" =>
    IF ret.fatal = "NONE" THEN ResultTable
    ELSE /\ ret.sr = "NONE"
         /\ ret.fatal \in {"EMPTY_SOLUTION", "SATISFIABLE"}
              => (ret.solFound /\ opts.checkSynthSol)

\* C2 witness: a solution was extracted although the raw status is UNSAT,
\* and checkSynth returned SOLUTION.
C2_Witness ==
  ret.op = "checkSynth" /\ ret.solFound /\ ret.raw = "UNSAT" /\ ret.sr = "SOLUTION"

\* C3: a checkSynth(isNext=true) that directly follows a checkSynth does not
\* rebuild the conjecture (the cached term is the same), creates no
\* sub-solver and asserts nothing: in sub-solver mode it queries the
\* sub-solver of the previous call, unchanged.
C3_NextAfterCheckReuses ==
  [][(ret.op = "checkSynth" /\ ret'.op = "checkSynth" /\ ret'.isNext)
       => /\ ~ret'.rebuilt /\ ~ret'.created
          /\ d_conj' = d_conj
          /\ d_subsolver' = d_subsolver
          /\ d_subsolverCd' = d_subsolverCd
          /\ usingSygusSubsolver
               => (d_subsolver.addr # 0 /\ ret'.queried = d_subsolver.addr)]_vars

\* C3 witness: in sub-solver mode, a checkSynth(isNext=true) directly after a
\* checkSynth queried the cached sub-solver without rebuilding.
C3_Witness ==
  /\ ret.op = "checkSynth" /\ ret.isNext /\ ret.prevOp = "checkSynth"
  /\ ~ret.rebuilt /\ usingSygusSubsolver /\ ret.queried = d_subsolver.addr
  /\ ret.queried # 0 /\ ret.sr = "SOLUTION"

\* C4: in sub-solver mode, whenever checkSynth(isNext=true) skips the
\* reconstruction, the sub-solver it queries holds the conjecture built from
\* the synthesis functions, constraints and assumptions in scope.
C4_SkippedRebuildQueriesCurrent ==
  (ret.op = "checkSynth" /\ ret.isNext /\ ~ret.rebuilt /\ usingSygusSubsolver)
    => /\ d_subsolver.addr # 0
       /\ d_subsolver.asserted[Len(d_subsolver.asserted)] = CurrentConjecture

\* C5: checkSynth(isNext=false) rebuilds the conjecture from the lists in
\* scope whatever the stale flag was; in sub-solver mode it creates a new
\* sub-solver, stores its address in the context-dependent pointer and
\* asserts the new conjecture into it, once.
C5_NotNextRebuilds ==
  (ret.op = "checkSynth" /\ ~ret.isNext) =>
    /\ ret.rebuilt
    /\ d_conj = CurrentConjecture
    /\ ~d_sygusConjectureStale
    /\ usingSygusSubsolver =>
         /\ ret.created
         /\ d_subsolver.addr \notin {0, ret.prevSub}
         /\ d_subsolverCd = d_subsolver.addr
         /\ d_subsolver.asserted[Len(d_subsolver.asserted)] = d_conj
         /\ Cardinality({i \in 1..Len(d_subsolver.asserted) :
                           d_subsolver.asserted[i] = d_conj}) = 1

\* C5 witness: in sub-solver mode, a checkSynth(isNext=false) entered with a
\* cached conjecture and the stale flag clear built a new sub-solver.
C5_Witness ==
  /\ ret.op = "checkSynth" /\ ~ret.isNext /\ ~ret.staleOnEntry /\ ret.hadConj
  /\ usingSygusSubsolver /\ ret.created /\ ret.prevSub # 0

\* the conjecture without the synthesis-conjecture marker
UnmarkedConjecture == IF d_conj.kind = "FORALL" THEN d_conj.args[2] ELSE d_conj

\* C6: the rebuilt conjecture body is NOT(AND(constraints)) when the
\* assumptions or the constraints are empty, NOT(AND(assumptions) =>
\* AND(constraints)) when both are non-empty, and it is wrapped in an
\* existential quantifier over all declared variables iff there are any.
C6_ConjectureShape ==
  (ret.op = "checkSynth" /\ ret.rebuilt) =>
    LET q == UnmarkedConjecture
        quantified == q.kind = "EXISTS"
        inner == IF quantified THEN q.args[2] ELSE q
        conjunction == mkAnd(d_sygusConstraints)
    IN /\ quantified <=> (Len(d_sygusVars) # 0)
       /\ quantified => q.args[1] = mkNode("BOUND_VAR_LIST", d_sygusVars)
       /\ inner = IF Len(d_sygusConstraints) = 0 \/ Len(d_sygusAssumps) = 0
                  THEN mkNode("NOT", <<conjunction>>)
                  ELSE mkNode("NOT", <<mkNode("IMPLIES",
                                        <<mkAnd(d_sygusAssumps), conjunction>>)>>)

\* C6 witness: a rebuild with declared variables, constraints and
\* assumptions.
C6_Witness ==
  /\ ret.op = "checkSynth" /\ ret.rebuilt
  /\ Len(d_sygusVars) # 0 /\ Len(d_sygusConstraints) > 1 /\ Len(d_sygusAssumps) # 0

\* the placeholder a trivial function gets in the solution map
HasPlaceholder(f) ==
  /\ f \in DOMAIN ret.solMap
  /\ ret.solMap[f] = mkSygusTermFor(f)
  /\ getType(ret.solMap[f]) = getType(f)

\* the symbols written in the tracked constraints and assumptions
WrittenSymbols ==
  UNION {getVariables(t) : t \in Range(d_sygusConstraints) \cup Range(d_sygusAssumps)}

\* C7 (as stated): when triviality inference runs, a declared function that
\* is referenced in no constraint and no assumption is in the trivial set
\* and, when solutions are extracted, gets a placeholder of its own type.
C7_UnreferencedIsTrivial ==
  (ret.op = "checkSynth" /\ ret.rebuilt /\ inferTrivial(opts)) =>
    \A f \in Range(d_sygusFunSymbols) :
      f \notin WrittenSymbols =>
        (f \in Range(d_trivialFuns) /\ (ret.solFound => HasPlaceholder(f)))

\* the functions that occur in the substituted, rewritten conjecture body
OccurringFuns == {f \in Range(d_sygusFunSymbols) : f \in TrivialityVars(CurrentBody)}

\* C7 (amended): when triviality inference runs, a declared function that
\* occurs neither in the conjecture body after the substitution of
\* definitions and rewriting, nor in the grammar of a function that occurs
\* there, is in the trivial set and, whenever getSynthSolutions returns
\* true, gets a placeholder solution of its own type.
C7_NonOccurringIsTrivial ==
  (ret.op = "checkSynth" /\ ret.rebuilt /\ inferTrivial(opts)) =>
    \A f \in Range(d_sygusFunSymbols) :
      (/\ f \notin OccurringFuns
       /\ \A g \in OccurringFuns : f \notin getFreeVariablesSygusType(g))
        => (f \in Range(d_trivialFuns) /\ (ret.solFound => HasPlaceholder(f)))

\* C7 witness: a rebuild with constraints after which a declared function is
\* trivial and has its placeholder in the extracted solution map.
C7_Witness ==
  /\ ret.op = "checkSynth" /\ ret.rebuilt /\ inferTrivial(opts) /\ ret.solFound
  /\ Len(d_sygusConstraints) # 0
  /\ \E f \in Range(d_sygusFunSymbols) :
       f \notin OccurringFuns /\ f \in Range(d_trivialFuns) /\ HasPlaceholder(f)

\* the warnings that report the outcome of a verification
ResultWarnings == {"satisfiable negated conjecture", "result unknown"}

\* C8: a verification result UNSAT raises nothing; SAT is a fatal error iff
\* the synthesis result can be trusted (cegisSample is not TRUST) and a
\* warning otherwise; UNKNOWN is a warning and never a fatal error.
C8_VerificationOutcomes ==
  (ret.op = "checkSynth" /\ ret.vres # "NONE") =>
    /\ ret.checkerCreated
    /\ ret.vres = "UNSAT" => (ret.fatal = "NONE" /\ ret.warnings \cap ResultWarnings = {})
    /\ ret.vres = "SAT" =>
         /\ (ret.fatal = "SATISFIABLE") <=> ~opts.cegisSampleTrust
         /\ opts.cegisSampleTrust =>
              (ret.fatal = "NONE" /\ "satisfiable negated conjecture" \in ret.warnings)
    /\ ret.vres = "UNKNOWN" => (ret.fatal = "NONE" /\ "result unknown" \in ret.warnings)

\* C8 witness: a verification that found the negated conjecture satisfiable
\* under cegisSample = TRUST and only warned.
C8_Witness ==
  /\ ret.op = "checkSynth" /\ ret.vres = "SAT" /\ opts.cegisSampleTrust
  /\ ret.fatal = "NONE" /\ "satisfiable negated conjecture" \in ret.warnings

\* C9: checkSynthSolution on an empty solution map raises the fatal error
\* whatever the trust setting, before a verification solver is created.
C9_EmptySolutionIsFatal ==
  (ret.op = "checkSynth" /\ ret.solFound /\ opts.checkSynthSol /\ DOMAIN ret.solMap = {})
    => (ret.fatal = "EMPTY_SOLUTION" /\ ~ret.checkerCreated /\ ret.vres = "NONE")

\* C9 witness: the fatal error on an empty solution map under
\* cegisSample = TRUST.
C9_Witness ==
  /\ ret.op = "checkSynth" /\ ret.solFound /\ DOMAIN ret.solMap = {}
  /\ opts.checkSynthSol /\ opts.cegisSampleTrust /\ ret.fatal = "EMPTY_SOLUTION"

\* C10: when getSynthSolutions returned true and the verification ends in a
\* warning (UNKNOWN, or SAT under an untrusted configuration), checkSynth
\* returns SOLUTION.
C10_WarningKeepsSolution ==
  (ret.op = "checkSynth" /\ ret.solFound /\ ret.warnings \cap ResultWarnings # {})
    => (ret.fatal = "NONE" /\ ret.sr = "SOLUTION")

\* C10 witness: the verification result is unknown, the raw status is UNSAT
\* and checkSynth returned SOLUTION.
C10_Witness ==
  /\ ret.op = "checkSynth" /\ ret.solFound /\ ret.vres = "UNKNOWN"
  /\ ret.raw = "UNSAT" /\ "result unknown" \in ret.warnings /\ ret.sr = "SOLUTION"

RECURSIVE LeavesOf(_)
\* the non-conjunction terms of a sequence of conjunction trees, left to right
LeavesOf(ts) ==
  IF ts = <<>> THEN <<>>
  ELSE (IF Head(ts).kind = "AND" THEN LeavesOf(Head(ts).args) ELSE <<Head(ts)>>)
       \o LeavesOf(Tail(ts))

RECURSIVE BoundVarsOf(_)
\* the bound variables of the universal quantifiers of a sequence of terms
BoundVarsOf(ts) ==
  IF ts = <<>> THEN <<>>
  ELSE (IF Head(ts).kind = "FORALL" THEN Head(ts).args[1].args ELSE <<>>)
       \o BoundVarsOf(Tail(ts))

\* C11: assertSygusConstraint(n, isAssume) appends the non-conjunction
\* leaves of n's top-level AND tree, left to right, to the assumptions when
\* isAssume and to the constraints otherwise, a universally quantified leaf
\* being stored as its body with its bound variables appended to the
\* declared variables; the other list and the synthesis functions are
\* unchanged and the stale flag is set.
C11_AssertAppendsLeaves ==
  [][ret'.op = "assertSygusConstraint" =>
       LET leaves == LeavesOf(ret'.args)
           bodies == [i \in 1..Len(leaves) |->
                        IF leaves[i].kind = "FORALL" THEN leaves[i].args[2]
                        ELSE leaves[i]]
       IN /\ d_sygusVars' = d_sygusVars \o BoundVarsOf(leaves)
          /\ IF ret'.isAssume
             THEN /\ d_sygusAssumps' = d_sygusAssumps \o bodies
                  /\ d_sygusConstraints' = d_sygusConstraints
             ELSE /\ d_sygusConstraints' = d_sygusConstraints \o bodies
                  /\ d_sygusAssumps' = d_sygusAssumps
          /\ d_sygusFunSymbols' = d_sygusFunSymbols
          /\ d_sygusConjectureStale']_vars

\* C11 witness: a nested conjunction with a quantified leaf was asserted as
\* an assumption after a conjecture had been built.
C11_Witness ==
  /\ ret.op = "assertSygusConstraint" /\ ret.args = <<cNest>> /\ ret.isAssume
  /\ d_conj # NullNode
  /\ Len(d_sygusAssumps) = 3 /\ VarY \in Range(d_sygusVars)

\* C12: assertSygusInvConstraint on an invariant of k arguments appends 2k
\* fresh variables to the declared variables, each regular variable followed
\* by its primed copy, and appends the one constraint (Pre(x) => Inv(x)) AND
\* ((Inv(x) AND Trans(x, x')) => Inv(x')) AND (Inv(x) => Post(x)); the
\* assumptions and the synthesis functions are unchanged and the stale flag
\* is set.
C12_InvConstraintShape ==
  [][ret'.op = "assertSygusInvConstraint" =>
       LET inv == ret'.args[1]
           pre == ret'.args[2]
           trans == ret'.args[3]
           post == ret'.args[4]
           k == Len(getType(inv).args)
           n == Len(d_sygusVars)
           added == [i \in 1..(Len(d_sygusVars') - n) |-> d_sygusVars'[n + i]]
           x == [i \in 1..k |-> added[2 * i - 1]]
           xp == [i \in 1..k |-> added[2 * i]]
           Ap(f, as) == [kind |-> "APPLY_UF", name |-> "", args |-> <<f>> \o as]
           Bin(op, a, b) == [kind |-> op, name |-> "", args |-> <<a, b>>]
       IN /\ Len(d_sygusVars') = n + 2 * k
          /\ SubSeq(d_sygusVars', 1, n) = d_sygusVars
          /\ \A i \in 1..(2 * k) : added[i].kind = "BOUND_VARIABLE"
          /\ \A i \in 1..(2 * k) : added[i] \notin Range(d_sygusVars)
          /\ \A i, j \in 1..(2 * k) : added[i] = added[j] => i = j
          /\ d_sygusConstraints' = Append(d_sygusConstraints,
               [kind |-> "AND", name |-> "",
                args |-> <<Bin("IMPLIES", Ap(pre, x), Ap(inv, x)),
                           Bin("IMPLIES",
                               Bin("AND", Ap(inv, x), Ap(trans, x \o xp)),
                               Ap(inv, xp)),
                           Bin("IMPLIES", Ap(inv, x), Ap(post, x))>>])
          /\ d_sygusAssumps' = d_sygusAssumps
          /\ d_sygusFunSymbols' = d_sygusFunSymbols
          /\ d_sygusConjectureStale']_vars

\* C12 witness: an invariant constraint over two arguments was added after
\* a conjecture had been built, next to earlier variables and constraints.
C12_Witness ==
  /\ ret.op = "assertSygusInvConstraint" /\ ret.args[1] = FunInv
  /\ Len(getType(FunInv).args) = 2
  /\ d_conj # NullNode
  /\ Len(d_sygusVars) > 4 /\ Len(d_sygusConstraints) > 1

\* C13: once buildModel has run since the last resetModel, a further
\* buildModel returns the same success flag, runs neither prepareModel nor
\* finishBuildModel, leaves the nested context of the model alone and does
\* not touch the resource manager.
C13_BuildModelIsCached ==
  [][(mmPc.at = "idle" /\ mmRound.prepares > 0 /\ mmCall'.op = "buildModel") =>
       /\ mmCall'.cached /\ mmPc'.at = "idle"
       /\ mmCall'.result = mmRound.result
       /\ mmCall'.rm = <<>> /\ rmEnabled' = rmEnabled
       /\ mmCall'.ctx = <<>> /\ d_modelEeContext' = d_modelEeContext
       /\ mmCall'.consulted = <<>> /\ ~mmCall'.boolCollected /\ ~mmCall'.builderRun
       /\ mmRound' = mmRound /\ d_model' = d_model
       /\ d_modelBuilt' = d_modelBuilt
       /\ d_modelBuiltSuccess' = d_modelBuiltSuccess]_vars

\* C13 witness: a cached buildModel after a build that succeeded and after
\* its post-processing.
C13_Witness ==
  /\ mmCall.op = "buildModel" /\ mmCall.cached /\ mmCall.result = "TRUE"
  /\ mmRound.builds = 1 /\ mmRound.builder > 0

\* C14: from the entry of a buildModel that is not cached till its end, in
\* prepareModel and in finishBuildModel, the resource manager is disabled,
\* and it is enabled when the call has returned, after a success and after
\* a failure of prepareModel.
C14_ResourceManagerOffWhileBuilding ==
  /\ mmPc.at # "idle" => (~rmEnabled /\ mmCall.rm = <<FALSE>>)
  /\ (mmPc.at = "idle" /\ mmCall.op = "buildModel" /\ ~mmCall.cached)
       => (rmEnabled /\ mmCall.rm = <<FALSE, TRUE>>)

\* C14 witness: a buildModel has returned after its prepareModel failed.
C14_Witness ==
  /\ mmPc.at = "idle" /\ mmCall.op = "buildModel" /\ ~mmCall.cached
  /\ mmRound.prepared = "FALSE" /\ mmCall.consulted # <<>> /\ rmEnabled

\* C15: when prepareModel fails, buildModel returns false without running
\* the model builder and leaves the model marked built without success; a
\* later buildModel of the round returns false and prepares nothing again.
C15_PrepareFailureIsFinal ==
  [][/\ (mmPc'.at = "idle" /\ mmRound'.prepared = "FALSE") =>
          /\ d_modelBuilt' /\ ~d_modelBuiltSuccess'
          /\ mmRound'.result = "FALSE" /\ mmRound'.builds = 0
          /\ mmRound'.prepares = 1
          /\ ~d_model'.built
     /\ (mmPc.at = "idle" /\ mmRound.prepared = "FALSE"
           /\ mmCall'.op = "buildModel") =>
          /\ mmCall'.result = "FALSE" /\ mmPc'.at = "idle"
          /\ mmCall'.consulted = <<>> /\ ~mmCall'.boolCollected
          /\ ~mmCall'.builderRun]_vars

\* C15 witness: a second buildModel in a round whose prepareModel failed in
\* the collection of the Boolean variables.
C15_Witness ==
  /\ mmCall.op = "buildModel" /\ mmCall.cached /\ mmCall.result = "FALSE"
  /\ mmRound.prepared = "FALSE" /\ DOMAIN d_model.preds # {}

\* C16: postProcessModel does nothing when the model has not been built
\* since the last resetModel, and a post-processing hook of a theory or of
\* the model builder runs only when the build succeeded and models are
\* produced.
C16_PostProcessOnlyAfterSuccess ==
  [][mmCall'.op = "postProcessModel" =>
       /\ ~d_modelBuilt =>
            /\ mmCall'.hooks = <<>> /\ ~mmCall'.builderPost
            /\ mmCall'.fatal = "NONE"
            /\ mmRound' = mmRound /\ d_model' = d_model
            /\ d_modelBuilt' = d_modelBuilt
            /\ d_modelBuiltSuccess' = d_modelBuiltSuccess
       /\ (mmCall'.hooks # <<>> \/ mmCall'.builderPost \/ mmRound' # mmRound) =>
            /\ d_modelBuilt /\ d_modelBuiltSuccess /\ mmRound.result = "TRUE"
            /\ mmEnv.produceModels]_vars

\* C16 witness: the hooks ran after a successful build.
C16_Witness ==
  /\ mmCall.op = "postProcessModel" /\ mmCall.builderPost
  /\ Len(mmCall.hooks) > 2 /\ mmRound.result = "TRUE"

\* C17: between two resetModel, the post-processing hook of each theory and
\* of the model builder runs at most once, whatever buildModel and
\* postProcessModel calls are made.
C17_PostProcessedAtMostOnce ==
  /\ mmRound.builder <= 1
  /\ \A t \in TheoryIds : mmRound.theory[t] <= 1

\* C18: a variable the SAT engine has no value for is asserted false in the
\* model, and what the model holds for it differs from what it holds for a
\* variable the SAT engine set to false.
C18_DefaultIsDistinguishable ==
  (mmCall.op = "buildModel" /\ mmCall.boolCollected) =>
    \A v \in DOMAIN mmCall.sat :
      mmCall.sat[v] = "NONE" =>
        /\ v \in DOMAIN d_model.preds /\ d_model.preds[v] = FALSE
        /\ \A w \in DOMAIN mmCall.sat :
             mmCall.sat[w] = "FALSE" => d_model.preds[w] # d_model.preds[v]

\* C19: resetModel clears the built flag and the success flag, and the
\* buildModel that follows it runs prepareModel from its start instead of
\* returning a cached flag.
C19_ResetForcesRebuild ==
  [][/\ mmCall'.op = "resetModel" =>
          (~d_modelBuilt' /\ ~d_modelBuiltSuccess' /\ mmRound'.prepares = 0)
     /\ (mmCall.op = "resetModel" /\ mmCall'.op = "buildModel") =>
          /\ ~mmCall'.cached
          /\ mmPc' = [at |-> "collect", theoryId |-> 0]
          /\ mmCall'.ctx = <<"pop", "push">>
          /\ mmRound'.prepares = 1]_vars

\* C19 witness: the model was built again, with success, after a resetModel
\* that found a model built with success.
C19_Witness ==
  /\ mmCall.op = "buildModel" /\ ~mmCall.cached /\ mmPc.at = "idle"
  /\ mmCall.builderRun /\ mmCall.result = "TRUE" /\ mmRound.resetBuilt


\* C20: after each round of postCheck (initialize, run the strategy, flush
\* what is pending) another round is started exactly when the state is not
\* in conflict, no lemma was sent in the round and a fact or a lemma was
\* pending before the flush; otherwise postCheck ends.
C20_RoundRepeatsIffPendingOnly ==
  bagsCall.tested =>
    LET again == /\ ~d_state.conflict
                 /\ bagsCall.sent = 0
                 /\ bagsCall.pendingFacts + bagsCall.pendingLemmas > 0
    IN /\ (bagsPc.at = "round") <=> again
       /\ (bagsPc.at = "idle") <=> ~again

\* a round whose pending lemma was not accepted is followed by another round
C20_Witness ==
  /\ bagsCall.tested /\ bagsPc.at = "round"
  /\ bagsCall.pendingLemmas > 0 /\ bagsCall.sent = 0


\* C21: the inference manager of the theory of bags has no pending fact and
\* no pending lemma whenever postCheck is not under way, whether or not the
\* strategy was run and whether or not a conflict was raised; the two
\* assertions that close postCheck never fail.
C21_NothingPendingAtReturn ==
  /\ bagsCall.fatal = "NONE"
  /\ bagsPc.at = "idle" => d_im.pendingFacts = 0 /\ d_im.pendingLemmas = 0

\* postCheck has returned from a round that had a lemma pending and ended
\* in a conflict
C21_Witness ==
  /\ bagsPc.at = "idle" /\ bagsCall.op = "postCheck" /\ bagsCall.tested
  /\ bagsCall.conflict /\ bagsCall.pendingLemmas > 0


\* C22: every postCheck terminates: a postCheck that is under way returns.
C22_PostCheckTerminates == (bagsPc.at # "idle") ~> (bagsPc.at = "idle")


\* the pairs of count terms collected by initialize() that are over the
\* same bag, or over bags known equal
CountPairsOverOneBag ==
  {p \in Range(d_opMap) \X Range(d_opMap) :
     /\ p[1].kind = "BAG_COUNT" /\ p[2].kind = "BAG_COUNT"
     /\ p[1].args[1] # p[2].args[1]
     /\ p[1].args[2] = p[2].args[2] \/ d_equalityEngine.eqBags}

\* the number of case splits on the elements that the last computeCareGraph
\* sent for the pair p of terms: the care graph goes through one term for
\* each tuple of representatives of the arguments, so the splits of p are
\* those of the pair of terms that stand for p[1] and p[2], in either order
ElementSplits(p) ==
  LET reps(n) == childrenReps(d_equalityEngine, n)
      x == p[1].args[1]
      y == p[2].args[1]
      on(z, w) == mkNode("OR", <<mkNode("EQUAL", <<z, w>>),
                                 mkNode("NOT", <<mkNode("EQUAL", <<z, w>>)>>)>>)
  IN Cardinality({l \in bagsTermCall.lemmas :
                    /\ <<reps(l.pair[1]), reps(l.pair[2])>> \in
                         {<<reps(p[1]), reps(p[2])>>, <<reps(p[2]), reps(p[1])>>}
                    /\ l.lemma \in {on(x, y), on(y, x)}})

\* C23 as stated: for two count terms over the same bag, computeCareGraph
\* sends exactly one case split on the element arguments when they are not
\* known equal, and none when they are known equal.
C23_SplitUnlessKnownEqual ==
  bagsTermCall.op = "computeCareGraph" =>
    \A p \in CountPairsOverOneBag :
      ElementSplits(p) = IF d_equalityEngine.eqElems THEN 0 ELSE 1

\* C23, amended: for two count terms over the same bag, computeCareGraph
\* sends exactly one case split on the element arguments when the elements
\* are themselves bags that are neither known equal nor reported disequal,
\* and none when the elements are known equal or are not bags.
C23_SplitOnBagElements ==
  bagsTermCall.op = "computeCareGraph" =>
    \A p \in CountPairsOverOneBag :
      /\ (bagsEnv.elemIsBag /\ ~d_equalityEngine.eqElems
            /\ ~d_equalityEngine.diseqElems) => ElementSplits(p) = 1
      /\ (d_equalityEngine.eqElems \/ ~bagsEnv.elemIsBag) => ElementSplits(p) = 0

\* computeCareGraph has split on the elements of two count terms
C23_Witness ==
  /\ bagsTermCall.op = "computeCareGraph"
  /\ \E p \in CountPairsOverOneBag :
       bagsEnv.elemIsBag /\ ~d_equalityEngine.eqElems /\ ElementSplits(p) = 1


\* C24: when the bags option is off every preRegisterTerm fails with a logic
\* error, a term of kind BAG_PARTITION always fails with a logic error, and
\* a failing call leaves the equality engine as it was: the term is not
\* added and no trigger predicate is registered.  No other call fails.
C24_PreRegisterGating ==
  bagsTermCall.op = "preRegisterTerm" =>
    LET n == bagsTermCall.args[1]
        rejected == ~bagsEnv.bags \/ n.kind = "BAG_PARTITION"
    IN /\ (bagsTermCall.threw = "LogicException") <=> rejected
       /\ rejected =>
            /\ d_equalityEngine = bagsTermCall.before[1]
            /\ n \notin d_equalityEngine.terms
            /\ n \notin d_equalityEngine.triggers

\* a BAG_PARTITION term was rejected, with the option on, by an equality
\* engine that already holds a term
C24_Witness ==
  /\ bagsTermCall.op = "preRegisterTerm" /\ bagsEnv.bags
  /\ bagsTermCall.args[1].kind = "BAG_PARTITION"
  /\ bagsTermCall.threw = "LogicException"
  /\ d_equalityEngine.terms # {}


\* the number of times the element e occurs in the bag value v, in a model
\* that gives the terms of one class one value
CountIn(v, e) ==
  LET k == getRepresentative(d_equalityEngine, e)
  IN IF k \in DOMAIN v THEN v[k] ELSE 0

\* C25: collectModelValues gives every class of bag leaves of the term set
\* one value, and in that value every element of the term set that is
\* registered for the bag occurs as often as the model value of its count
\* skolem says; for x = bag(e, 2) the count of e in the value of x is 2.
C25_ModelRoundTrip ==
  bagsTermCall.op = "collectModelValues" =>
    LET done == Range(bagsTermCall.asserted)
        rep(n) == getRepresentative(d_equalityEngine, n)
    IN /\ \A n \in bagsTermCall.termSet \cap BagTerms :
            Cardinality({a \in done : rep(a.term) = rep(n)}) = 1
       /\ \A a \in done :
            \A e \in bagsTermCall.termSet \cap ElemTerms :
              (rep(a.term) \in DOMAIN bagsTermCall.elems
                 /\ e \in Range(bagsTermCall.elems[rep(a.term)]))
                => CountIn(a.value, e) = bagsTermCall.mrep[<<e, rep(a.term)>>]

\* the bag A has the element e1 with a count skolem of value 2, and its
\* model value holds e1 twice
C25_Witness ==
  /\ bagsTermCall.op = "collectModelValues"
  /\ \E a \in Range(bagsTermCall.asserted) :
       /\ a.term = Leaf("VARIABLE", "A")
       /\ Leaf("VARIABLE", "e1") \in bagsTermCall.termSet
       /\ Leaf("VARIABLE", "e1") \in Range(bagsTermCall.elems[Leaf("VARIABLE", "A")])
       /\ bagsTermCall.mrep[<<Leaf("VARIABLE", "e1"), Leaf("VARIABLE", "A")>>] = 2
       /\ CountIn(a.value, Leaf("VARIABLE", "e1")) = 2


Occurrences(s, x) == Cardinality({i \in 1..Len(s) : s[i] = x})

\* C27: after a rebuild of the conjecture with the inference enabled every
\* declared function-to-synthesize is in exactly one of the trivial and the
\* non-trivial list, and the non-trivial list given to the marker of the
\* conjecture holds it exactly once, also after a second pass.
C27_TrivialityPartitions ==
  (ret.op = "checkSynth" /\ ret.rebuilt /\ ret.fatal = "NONE"
     /\ ~opts.sygusStream /\ ~opts.incrementalSolving) =>
    \A f \in Range(d_sygusFunSymbols) :
      Occurrences(ret.ntriv, f) + Occurrences(d_trivialFuns, f) = 1


C29_SubsolverInitialisation ==
  (ret.op = "checkSynth" /\ ret.created /\ ret.fatal = "NONE") =>
    LET as == d_subsolver.asserted
        eqDefs == {d \in Range(AssertionListDefinitions) : d.kind = "EQUAL"}
        outer == Range(AssertionList) \ (eqDefs \cup {d_conj})
    IN /\ Range(d_subsolver.defs) = eqDefs
       /\ Len(as) = Cardinality(outer) + 1
       /\ {as[i] : i \in 1..(Len(as) - 1)} = outer
       /\ as[Len(as)] = d_conj

\* a sub-solver was made for a conjecture that is also an outer assertion
C29_Witness ==
  /\ ret.op = "checkSynth" /\ ret.created /\ ret.fatal = "NONE"
  /\ d_conj \in Range(AssertionList)


\* C30: in a buildModel that is not answered from the cache, the theories
\* consulted so far are, in increasing order of their id and without a gap,
\* theories enabled in the logic other than Bool and Builtin; a theory whose
\* collectModelInfo failed is the last one consulted and the Boolean
\* variables are then not collected; the Boolean variables are collected
\* only when every such theory was consulted and none failed, and the
\* prepareModel that nothing failed in has collected them when it is left.
C30_ConsultationOrder ==
  (mmCall.op = "buildModel" /\ ~mmCall.cached) =>
    LET c == mmCall.consulted
        contributing == {t \in TheoryIds : /\ t \in mmEnv.enabled
                                           /\ t # THEORY_BOOL
                                           /\ t # THEORY_BUILTIN}
    IN /\ \A i \in 1..Len(c) : c[i] \in contributing
       /\ \A i \in 1..Len(c), j \in 1..Len(c) : i < j => c[i] < c[j]
       /\ \A i \in 1..Len(c) : \A t \in contributing :
            t < c[i] => \E j \in 1..Len(c) : c[j] = t
       /\ mmCall.failedAt # -1 =>
            /\ Len(c) > 0 /\ c[Len(c)] = mmCall.failedAt
            /\ ~mmCall.boolCollected
            /\ mmPc.at \in {"return", "idle"}
       /\ mmCall.boolCollected =>
            /\ {c[i] : i \in 1..Len(c)} = contributing
            /\ mmCall.failedAt = -1
       /\ (mmPc.at # "collect" /\ mmCall.failedAt = -1) => mmCall.boolCollected

\* a buildModel has returned in which a theory that the logic does not
\* enable was passed over and the first theory consulted failed
C30_Witness ==
  /\ mmCall.op = "buildModel" /\ ~mmCall.cached /\ mmPc.at = "idle"
  /\ 2 \notin mmEnv.enabled
  /\ mmCall.consulted = <<3>> /\ mmCall.failedAt = 3
  /\ ~mmCall.boolCollected


\* C31: once finishInit has run, the nested context of the model has depth
\* one in every state; finishInit pushes it once, a buildModel that is not
\* answered from the cache pops it once and then pushes it once, and a
\* cached buildModel, resetModel and postProcessModel neither push nor pop.
C31_ModelContextDepthOne ==
  /\ d_modelBuilder = "nullptr" => d_modelEeContext = 0
  /\ d_modelBuilder # "nullptr" => d_modelEeContext = 1
  /\ mmCall.op = "finishInit" => mmCall.ctx = <<"push">>
  /\ (mmCall.op = "buildModel" /\ ~mmCall.cached) => mmCall.ctx = <<"pop", "push">>
  /\ (mmCall.op = "buildModel" /\ mmCall.cached) => mmCall.ctx = <<>>
  /\ mmCall.op \in {"resetModel", "postProcessModel"} => mmCall.ctx = <<>>

\* a second model has been rebuilt after a reset, and its theories consulted
C31_Witness ==
  /\ mmCall.op = "buildModel" /\ ~mmCall.cached /\ mmCall.builtOnEntry = FALSE
  /\ mmRound.resetBuilt /\ Len(mmCall.consulted) > 0
  /\ d_modelEeContext = 1


\* the inference steps of the strategy, in its order
InferSteps == SelectSeq(StrategySteps, LAMBDA s : s # "BREAK")

\* C32: each iteration of runStrategy takes the next step of the strategy;
\* a BREAK runs no inference step and ends the round exactly when the state
\* is in conflict or a fact or a lemma is pending; an inference step is run
\* only when the state is not in conflict, and it ends the round exactly
\* when it reported true (only checkBagMake does) or the state is then in
\* conflict; the inference steps run in a round are the first ones of the
\* strategy, in its order.
C32_StrategyWithinRound ==
  [][(bagsPc.at = "strategy" /\ bagsPc' # bagsPc) =>
       LET it == bagsPc.it
           ends == bagsPc'.at = "flush"
           goesOn == bagsPc'.at = "strategy" /\ bagsPc'.it = it + 1
       IN /\ ends \/ goesOn
          /\ bagsCall'.steps =
               SubSeq(InferSteps, 1, Len(bagsCall'.steps))
          /\ IF it > Len(StrategySteps)
             THEN ends /\ bagsCall'.steps = bagsCall.steps
             ELSE IF StrategySteps[it] = "BREAK"
             THEN /\ bagsCall'.steps = bagsCall.steps
                  /\ ends <=> \/ d_state.conflict
                              \/ d_im.pendingFacts > 0
                              \/ d_im.pendingLemmas > 0
             ELSE /\ ~d_state.conflict
                  /\ bagsCall'.steps = Append(bagsCall.steps, StrategySteps[it])
                  /\ bagsCall'.reported => StrategySteps[it] = "CHECK_BAG_MAKE"
                  /\ ends <=> (bagsCall'.reported \/ d_state'.conflict)]_vars

\* a round was ended at the break that follows checkBagMake, by a pending
\* lemma, with no conflict and no step that reported true
C32_Witness ==
  /\ bagsPc.at = "flush" /\ bagsPc.it = 4
  /\ bagsCall.steps = <<"CHECK_INIT", "CHECK_BAG_MAKE">>
  /\ ~bagsCall.reported /\ ~d_state.conflict
  /\ d_im.pendingLemmas > 0 /\ d_im.pendingFacts = 0


\* C33: after the round of a postCheck the term index holds every term of
\* the equality engine exactly once, under its kind, and nothing else: no
\* term of an earlier round that the engine holds no more, and no term
\* twice.
C33_IndexRebuiltEachRound ==
  bagsTermCall.op = "postCheck" =>
    /\ \A t \in d_equalityEngine.terms : Occurrences(d_opMap, t) = 1
    /\ \A i \in 1..Len(d_opMap) : d_opMap[i] \in d_equalityEngine.terms
    /\ \A k \in {"BAG_COUNT", "BAG_MAKE"} :
         Len(SelectSeq(d_opMap, LAMBDA n : n.kind = k)) =
           Cardinality({t \in d_equalityEngine.terms : t.kind = k})

\* a round has indexed two terms, one of them registered after a push
C33_Witness ==
  /\ bagsTermCall.op = "postCheck"
  /\ Len(d_opMap) = 2
  /\ Len(d_equalityEngine.saved) = 1
  /\ Cardinality(d_equalityEngine.saved[1].terms) = 1

\* C37: computeCareGraph never meets a term of the index that the equality
\* engine does not hold: its hasTerm assertion holds in every call.
C37_HasTermAssertionHolds ==
  bagsTermCall.op = "computeCareGraph" => bagsTermCall.threw = "NONE"


\* the pairs handed to processCarePairArgs whose two applications, of one of
\* the kinds ks, the equality engine holds equal
KnownEqualPairs(ks) ==
  {p \in bagsTermCall.processed :
     p[1].kind \in ks /\ areEqual(d_equalityEngine, p[1], p[2])}

\* C34 as stated: for a pair of BAG_MAKE or BAG_COUNT applications that the
\* equality engine holds equal no case split is sent, and no care pair is
\* added.
C34_NoSplitWhenKnownEqual ==
  bagsTermCall.op = "computeCareGraph" =>
    /\ \A p \in KnownEqualPairs({"BAG_MAKE", "BAG_COUNT"}) :
         \A l \in bagsTermCall.lemmas : l.pair # p
    /\ bagsTermCall.processed = KnownEqualPairs({"BAG_MAKE", "BAG_COUNT"}) =>
         d_careGraph = {}

\* C34, amended: for a pair of BAG_MAKE applications that the equality
\* engine holds equal no case split is sent and no care pair is added;
\* pairs of BAG_COUNT applications are processed also when they are equal.
C34_NoSplitWhenBagMakeKnownEqual ==
  bagsTermCall.op = "computeCareGraph" =>
    /\ \A p \in KnownEqualPairs({"BAG_MAKE"}) :
         \A l \in bagsTermCall.lemmas : l.pair # p
    /\ bagsTermCall.processed = KnownEqualPairs({"BAG_MAKE"}) =>
         d_careGraph = {}

\* two bag constructions over elements that are bags and not known equal
\* were told equal and handed to processCarePairArgs
C34_Witness ==
  /\ bagsTermCall.op = "computeCareGraph"
  /\ KnownEqualPairs({"BAG_MAKE"}) # {}
  /\ bagsEnv.elemIsBag /\ ~d_equalityEngine.eqElems
  /\ bagsTermCall.lemmas = {}


\* C35: after a declareSynthFun that fails with a logic error, for an
\* operator of the grammar with a free variable, the function is not in the
\* list of the declared functions-to-synthesize and the stale flag is as it
\* was before the call.
C35_RejectedDeclareLeavesStateAsBefore ==
  (ret.op = "declareSynthFun" /\ ret.threw = "LogicException") =>
    /\ ret.args[1] \notin Range(d_sygusFunSymbols)
    /\ d_sygusConjectureStale = ret.staleOnEntry


\* C36: whenever checkSynth(isNext=true) skips the reconstruction of the
\* conjecture a sub-solver exists, with and without incremental solving:
\* the assertion that d_subsolver is not null does not fail.
C36_SubsolverExistsWhenRebuildSkipped ==
  (ret.op = "checkSynth" /\ ret.isNext /\ ~ret.rebuilt) =>
    /\ ret.prevSub # 0
    /\ ret.fatal # "ASSERTION"


\* C38: whenever postProcessModel is called with the model marked built the
\* build succeeded, so that its AlwaysAssert(d_modelBuiltSuccess) does not
\* fail, whatever resetModel, buildModel and postProcessModel calls were
\* made and whatever failed in the builds.
C38_SuccessAssertionHolds ==
  (mmCall.op = "postProcessModel" /\ mmCall.builtOnEntry) =>
    /\ mmCall.successOnEntry
    /\ mmCall.fatal = "NONE"

\* C39: the success flag implies the built flag, in every state of the
\* manager.
C39_SuccessImpliesBuilt == d_modelBuiltSuccess => d_modelBuilt

\* a successful build has returned
C39_Witness ==
  /\ mmCall.op = "buildModel" /\ mmPc.at = "idle"
  /\ d_modelBuiltSuccess /\ d_modelBuilt /\ mmCall.result = "TRUE"


\* the terms held in the constraint list and in the assumption list
StoredConstraints == Range(d_sygusConstraints) \cup Range(d_sygusAssumps)

\* C40 as stated: no element of the constraint list or of the assumption
\* list is a top-level conjunction.
C40_NoTopLevelConjunction ==
  \A e \in StoredConstraints : e.kind # "AND"

\* C40, amended: an element of the constraint list or of the assumption list
\* is a top-level conjunction only when it is the conjunction of the three
\* implications that assertSygusInvConstraint builds, which is in the
\* constraint list, or the body of a quantified constraint, which is stored
\* as it is.
C40_ConjunctionsOnlyFromInvOrQuantifier ==
  \A e \in StoredConstraints :
    e.kind = "AND" =>
      \/ /\ e \in Range(d_sygusConstraints)
         /\ Len(e.args) = 3
         /\ \A i \in 1..3 : e.args[i].kind = "IMPLIES"
      \/ \E q \in {cAll, cAllAnd} : e = q.args[2]

\* a nested conjunction was asserted, and the lists hold its leaves and the
\* constraint of an invariant problem
C40_Witness ==
  /\ ret.op = "assertSygusConstraint" /\ ret.args = <<cNest>>
  /\ \E e \in Range(d_sygusConstraints) :
       e.kind = "AND" /\ Len(e.args) = 3 /\ e.args[1].kind = "IMPLIES"
  /\ cH \in StoredConstraints

====
